---------------------------- MODULE Spec2Model ----------------------------
(***************************************************************************)
(* A model of the geometry-equation compiler pipeline:                     *)
(*   ir::Insts (value-numbered pool), ir::simplify::Simplify,              *)
(*   ir::memoize::MemoBuilder, ir::reorder::reorder and                    *)
(*   codegen::regalloc / codegen::x86::emit.                               *)
(* Instruction indices are the 0-based InstIdx::idx() values; sequences    *)
(* are 1-based, so pool element i is pool[i + 1].                          *)
(***************************************************************************)
EXTENDS Integers, Sequences, FiniteSets, TLC

VARIABLES
    sink,       \* which InstSink the reader drives: "insts" or "simplify"
    pool,       \* Insts.pool
    vars,       \* Insts.vars (VarSet masks, parallel to pool)
    gvn,        \* Insts.gvn: Inst -> InstIdx
    sgvn,       \* Simplify.gvn: Key -> base index
    done,       \* the sink was consumed by finish
    consts,     \* MemoBuilder.result.consts
    funcs,      \* MemoBuilder.result.funcs, indexed by the VarSet mask 1 .. 7
    load,       \* MemoBuilder.load, per function: MemoIdx -> InstIdx
    store,      \* MemoBuilder.store, per function: a Location per instruction
    mdone,      \* the MemoBuilder was consumed by finish
    input,      \* reorder: the Insts (pool, vars) it was called on
    placed,     \* reorder: let mut placed
    remap,      \* reorder: let mut remap (None is InstIdx::INVALID)
    stack,      \* reorder: let mut stack
    rpc,        \* reorder: "idle", "enter", "loop", "rebuild" or "done"
    func,       \* emit: the MemoizedFunc (and neg_const) it was called on
    regs,       \* emit: let mut regs, a Registers<X86Target>
    epc,        \* emit: "idle", "walk", "done" or "panic"
    eidx,       \* emit: the instructions the backward loop has not visited yet
    given,      \* reassociate: the Insts (pool, vars) it was called on
    uses,       \* reassociate: let mut uses
    work,       \* reassociate: let mut stack
    ridx,       \* reassociate: the next idx of the for loop
    apc,        \* reassociate: "idle", "enter", "for", "while", "done" or "panic"
    lru,        \* Lru: the list under test
    trail,      \* Lru: the marks last made on it and what pop returned since
    cin,        \* Const::new: its argument v
    cres,       \* Const::new: [k, c], k "call" before it ran, then "const" or "abort"
    text,       \* io::read: the lines of the input, each a sequence of tokens
    rpos,       \* io::read: the line the loop reads next (1-based)
    rnames,     \* io::read: names, name -> handle
    rlast,      \* io::read: last
    rres,       \* io::read: "reading", then the result: ok with finish's argument, err or abort
    rfail       \* io::read: whether f.lines() yields an Err after the lines of text

gvnVars == <<sink, pool, vars, gvn, sgvn, done>>
memoVars == <<consts, funcs, load, store, mdone>>
reorderVars == <<input, placed, remap, stack, rpc>>
emitVars == <<func, regs, epc, eidx>>
reassocVars == <<given, uses, work, ridx, apc>>
lruVars == <<lru, trail>>
constVars == <<cin, cres>>
readVars == <<text, rpos, rnames, rlast, rres, rfail>>
allVars == <<gvnVars, memoVars, reorderVars, emitVars, reassocVars, lruVars, constVars, readVars>>

-----------------------------------------------------------------------------
(* Bounds and input alphabets *)

MaxPool == 3
MaxMemoInsts == 3       \* instructions pushed to all MemoizedFuncs together, Loads aside
MaxMemoConsts == 1
MaxChain == 16          \* multiplications in the chained program
MaxReorder == 3         \* instructions in a pool given to reorder
MaxFuncLen == 3         \* instructions in a MemoizedFunc given to emit
FreeRegs == 2           \* registers a padded function may leave without a pad
MaxOutputs == 2         \* output slots of a function that exports any of its values
PadOutputs == 2         \* outputs among the instructions behind a padded function
MaxReassoc == 4         \* instructions in a pool of every operator given to reassociate
MaxLru == 4              \* registers of the largest Lru exercised alone
MaxReadShort == 3        \* lines of an input of arbitrary lines given to read
MaxReadLines == 4        \* lines of a well-formed input given to read
MaxFloatLines == 3       \* lines of a well-formed input with constants, sqrt, min and max
InterpSize == 3          \* pixels wide and tall of the image interp renders

UnOps == {"Neg", "Square", "Sqrt"}
BinOps == {"Add", "Sub", "Mul", "Min", "Max"}
Commutative == {"Add", "Mul", "Min", "Max"}
Vars == {0, 1, 2}                      \* Var::X, Var::Y, Var::Z as u8

\* inputs offered to the sinks
InputConsts == {1073741824}            \* bits of 2.0f32
InputVars == {0}
InputLoads == {<<2, 0>>}               \* (vars mask, loc)
MemoInputVars == {0, 1, 2}
MemoInputUnOps == {"Neg"}
MemoInputBinOps == {"Mul"}
LocationMax == 65535                   \* Location::MAX

-----------------------------------------------------------------------------
(* ir::VarSet: a 3-bit mask *)

Bit(m, i) == (m \div (2 ^ i)) % 2

VarSetOf(v) == 2 ^ v

BitOr(a, b) ==
    LET mx(i) == IF Bit(a, i) = 1 \/ Bit(b, i) = 1 THEN 2 ^ i ELSE 0
    IN mx(0) + mx(1) + mx(2)

IsSubsetMask(a, b) == BitOr(a, b) = b

-----------------------------------------------------------------------------
(* ir::Inst *)

ConstI(c) == [k |-> "Const", op |-> "", val |-> c, loc |-> 0, args |-> <<>>]
VarI(v) == [k |-> "Var", op |-> "", val |-> v, loc |-> 0, args |-> <<>>]
UnOpI(op, a) == [k |-> "UnOp", op |-> op, val |-> 0, loc |-> 0, args |-> <<a>>]
BinOpI(op, a, b) == [k |-> "BinOp", op |-> op, val |-> 0, loc |-> 0, args |-> <<a, b>>]
BinOpA(op, args) == [k |-> "BinOp", op |-> op, val |-> 0, loc |-> 0, args |-> args]
LoadI(vs, loc) == [k |-> "Load", op |-> "", val |-> vs, loc |-> loc, args |-> <<>>]

At(p, i) == p[i + 1]

\* let x = v in F(x), with v evaluated once
Bind(v, F(_)) == CHOOSE r \in {F(x) : x \in {v}} : TRUE

IsUnOp(inst, op) == inst.k = "UnOp" /\ inst.op = op
IsBinOp(inst, op) == inst.k = "BinOp" /\ inst.op = op

\* <[InstIdx; 2]>::sort_unstable
SortBroken(a) == a
Sort2(a) == IF a[2] < a[1] THEN <<a[2], a[1]>> ELSE a

-----------------------------------------------------------------------------
(* ir::Insts::push *)

\* the Square(Neg x) arm: squaring -x is the same as squaring x
SquareNeg(p, inst) ==
    IF IsUnOp(At(p, inst.args[1]), "Neg")
    THEN UnOpI("Square", At(p, inst.args[1]).args[1])
    ELSE inst

\* the BinOp::Sub arm: negate a previous subtraction of the reversed operands
SubReversed(g, inst) ==
    LET reversed == BinOpI("Sub", inst.args[2], inst.args[1])
    IN IF reversed \in DOMAIN g THEN UnOpI("Neg", g[reversed]) ELSE inst

\* the rewrites push applies before the value-number lookup
Canonical(p, g, inst) ==
    IF IsUnOp(inst, "Square") THEN SquareNeg(p, inst)
    ELSE IF inst.k = "BinOp" /\ inst.op \in Commutative
         THEN BinOpA(inst.op, Sort2(inst.args))
    ELSE IF IsBinOp(inst, "Sub") THEN SubReversed(g, inst)
    ELSE inst

\* the VarSet recorded for a new instruction
NewVarsFirstArg(vs, inst) == IF inst.args = <<>> THEN 0 ELSE At(vs, inst.args[1])
NewVars(vs, inst) ==
    CASE inst.k = "Const" -> 0
      [] inst.k = "Var" -> VarSetOf(inst.val)
      [] inst.k = "UnOp" -> At(vs, inst.args[1])
      [] inst.k = "BinOp" -> BitOr(At(vs, inst.args[1]), At(vs, inst.args[2]))
      [] inst.k = "Load" -> inst.val

\* Insts::push on the sink state s (fields pool, vars, gvn); idx is the result
Push(s, inst0) ==
    Bind(Canonical(s.pool, s.gvn, inst0), LAMBDA inst :
        IF inst \in DOMAIN s.gvn
        THEN [s |-> s, idx |-> s.gvn[inst]]
        ELSE [s |-> [s EXCEPT !.pool = Append(s.pool, inst),
                              !.vars = Append(s.vars, NewVars(s.vars, inst)),
                              !.gvn = (inst :> Len(s.pool)) @@ s.gvn],
              idx |-> Len(s.pool)])

-----------------------------------------------------------------------------
(* ir::simplify::Simplify over an Insts base.  Its handles are Idx::Pos and *)
(* Idx::Neg; base.push_unop(op, arg) is Insts::push(Inst::UnOp{op, arg}),   *)
(* and likewise for the other shapes.                                       *)

Pos(i) == [sign |-> "Pos", idx |-> i]
Neg(i) == [sign |-> "Neg", idx |-> i]

\* Idx::negate
Negate(h) == IF h.sign = "Pos" THEN Neg(h.idx) ELSE Pos(h.idx)

\* gvn.entry(key).or_insert_with(|| base.push(inst)): r is the base index
Entry(s, key, inst) ==
    IF key \in DOMAIN s.sgvn
    THEN [s |-> s, r |-> s.sgvn[key]]
    ELSE Bind(Push(s, inst), LAMBDA b :
             [s |-> [b.s EXCEPT !.sgvn = (key :> b.idx) @@ s.sgvn], r |-> b.idx])

\* Simplify::gvn_unop
GvnUnop(s, op, a) == Entry(s, UnOpI(op, a), UnOpI(op, a))

\* Simplify::gvn_binop: r is a handle
PosResult(e) == [s |-> e.s, r |-> Pos(e.r)]

GvnBinop(s, op, args0) ==
    Bind(IF op \in Commutative THEN Sort2(args0) ELSE args0, LAMBDA args :
        IF op = "Sub" /\ BinOpI(op, args[2], args[1]) \in DOMAIN s.sgvn
        THEN [s |-> s, r |-> Neg(s.sgvn[BinOpI(op, args[2], args[1])])]
        ELSE Bind(Entry(s, BinOpA(op, args), BinOpA(op, args)), PosResult))

\* Simplify::force_neg
ForceNeg(s, h) ==
    IF h.sign = "Neg" THEN GvnUnop(s, "Neg", h.idx) ELSE [s |-> s, r |-> h.idx]

\* Simplify::push_unop
SimplifyPushUnop(s, op, h) ==
    IF op = "Neg" THEN [s |-> s, r |-> Negate(h)]
    ELSE IF op = "Square" THEN Bind(GvnUnop(s, op, h.idx), PosResult)
    ELSE Bind(ForceNeg(s, h), LAMBDA f : Bind(GvnUnop(f.s, op, f.r), PosResult))

\* the arms of push_binop's match that fold the signs without creating a Neg
Folds(op, h1, h2) ==
    \/ h1.sign = "Pos" /\ h2.sign = "Pos"
    \/ op \in {"Add", "Sub", "Mul"}
    \/ h1.sign = "Neg" /\ h2.sign = "Neg"

\* those arms: (op, args, negated)
FoldSignXor(op, h1, h2) ==
    [op |-> op, args |-> <<h1.idx, h2.idx>>, negated |-> (h1.sign # h2.sign)]
Fold(op, h1, h2) ==
    LET a == h1.idx
        b == h2.idx
        sg == <<h1.sign, h2.sign>>
        f(o, x, y, n) == [op |-> o, args |-> <<x, y>>, negated |-> n]
    IN CASE sg = <<"Pos", "Pos">> -> f(op, a, b, FALSE)
         [] op = "Add" /\ sg = <<"Neg", "Neg">> -> f("Add", a, b, TRUE)
         [] op = "Add" /\ sg = <<"Pos", "Neg">> -> f("Sub", a, b, FALSE)
         [] op = "Add" /\ sg = <<"Neg", "Pos">> -> f("Sub", b, a, FALSE)
         [] op = "Sub" /\ sg = <<"Neg", "Neg">> -> f("Sub", b, a, FALSE)
         [] op = "Sub" /\ sg = <<"Pos", "Neg">> -> f("Add", a, b, FALSE)
         [] op = "Sub" /\ sg = <<"Neg", "Pos">> -> f("Add", a, b, TRUE)
         [] op = "Mul" /\ sg = <<"Neg", "Neg">> -> f("Mul", a, b, FALSE)
         [] op = "Mul" /\ sg = <<"Pos", "Neg">> -> f("Mul", a, b, TRUE)
         [] op = "Mul" /\ sg = <<"Neg", "Pos">> -> f("Mul", a, b, TRUE)
         [] op = "Min" /\ sg = <<"Neg", "Neg">> -> f("Max", a, b, TRUE)
         [] op = "Max" /\ sg = <<"Neg", "Neg">> -> f("Min", a, b, TRUE)

\* Simplify::push_binop
SimplifyPushBinop(s, op, h1, h2) ==
    IF Folds(op, h1, h2)
    THEN Bind(Fold(op, h1, h2), LAMBDA f :
             Bind(GvnBinop(s, f.op, f.args), LAMBDA g :
                 [s |-> g.s, r |-> IF f.negated THEN Negate(g.r) ELSE g.r]))
    ELSE \* Min / Max of mixed signs: emit the Neg first
         Bind(GvnUnop(s, "Neg", IF h1.sign = "Neg" THEN h1.idx ELSE h2.idx), LAMBDA n :
             GvnBinop(n.s, op, IF h1.sign = "Neg" THEN <<n.r, h2.idx>>
                                                  ELSE <<h1.idx, n.r>>))

\* Simplify::push_const / push_var / push_load
SimplifyPushLeaf(s, inst) == Bind(Entry(s, inst, inst), PosResult)

\* Simplify::finish: r is the index handed to base.finish
SimplifyFinish(s, h) == ForceNeg(s, h)

-----------------------------------------------------------------------------
(* ir::memoize::MemoBuilder.  An Option is a sequence of length 0 or 1.   *)
(* funcs, load and store are indexed by the VarSet mask, func_for(v) + 1. *)

Funcs == 1 .. 7

None == <<>>
Some(x) == <<x>>

MemoIdx(vs, idx) == [vars |-> vs, idx |-> idx]

\* Memoized::default: the functions of one variable reserve output slot 0
MemoizedDefault ==
    [consts |-> <<>>,
     funcs |-> [f \in Funcs |->
                  [insts |-> <<>>,
                   outputs |-> IF f \in {VarSetOf(v) : v \in Vars} THEN <<None>> ELSE <<>>]]]

\* MemoBuilder::default
MemoBuilderDefault ==
    [consts |-> MemoizedDefault.consts,
     funcs |-> MemoizedDefault.funcs,
     load |-> [f \in Funcs |-> <<>>],
     store |-> [f \in Funcs |-> <<>>]]

\* MemoizedFunc::add_output on function f: the new slot is Len(outputs)
AddOutput(m, f, def) ==
    [m EXCEPT !.funcs[f].outputs = Append(@, Some(def))]

\* ensure_load giving a value an output slot at every use
ExportAlways(m, arg) ==
    [m |-> [AddOutput(m, arg.vars, arg.idx[1])
               EXCEPT !.store[arg.vars][arg.idx[1] + 1] = Len(m.funcs[arg.vars].outputs)],
     loc |-> Len(m.funcs[arg.vars].outputs)]

\* ensure_load, the location of a value of another function: its output
\* slot, assigned on first use
Export(m, arg) ==
    IF At(m.store[arg.vars], arg.idx[1]) = LocationMax
    THEN [m |-> [AddOutput(m, arg.vars, arg.idx[1])
                    EXCEPT !.store[arg.vars][arg.idx[1] + 1] =
                               Len(m.funcs[arg.vars].outputs)],
          loc |-> Len(m.funcs[arg.vars].outputs)]
    ELSE [m |-> m, loc |-> At(m.store[arg.vars], arg.idx[1])]

\* ensure_load loading everything from location 0
LoadLocationZero(m, arg) == [m |-> m, loc |-> 0]

\* ensure_load, the location to load arg from
LoadLocation(m, arg) ==
    IF arg.idx = None THEN [m |-> m, loc |-> 0]
    ELSE IF arg.vars # 0 THEN Export(m, arg)
    ELSE [m |-> m, loc |-> arg.idx[1]]

\* ensure_load, the Load of arg in function f: load[f].entry(arg).or_insert_with
LoadEntryAlways(m, f, arg, loc) ==
    [m |-> [m EXCEPT !.store[f] = Append(@, LocationMax),
                     !.funcs[f].insts = Append(@, LoadI(arg.vars, loc)),
                     !.load[f] = (arg :> Len(m.funcs[f].insts)) @@ @],
     idx |-> Len(m.funcs[f].insts)]
LoadEntry(m, f, arg, loc) ==
    IF arg \in DOMAIN m.load[f]
    THEN [m |-> m, idx |-> m.load[f][arg]]
    ELSE [m |-> [m EXCEPT !.store[f] = Append(@, LocationMax),
                          !.funcs[f].insts = Append(@, LoadI(arg.vars, loc)),
                          !.load[f] = (arg :> Len(m.funcs[f].insts)) @@ @],
          idx |-> Len(m.funcs[f].insts)]

\* MemoBuilder::ensure_load
EnsureLoadNever(m, vs, arg) ==
    [m |-> m, idx |-> IF arg.idx = None THEN 0 ELSE arg.idx[1]]
EnsureLoad(m, vs, arg) ==
    IF arg.idx # None /\ arg.vars = vs
    THEN [m |-> m, idx |-> arg.idx[1]]
    ELSE Bind(LoadLocation(m, arg), LAMBDA l : LoadEntry(l.m, vs, arg, l.loc))

\* MemoBuilder::push; func_for panics on the empty VarSet (ok = FALSE)
MemoPush(m, vs, inst) ==
    IF vs = 0
    THEN [m |-> m, r |-> MemoIdx(vs, None), ok |-> FALSE]
    ELSE [m |-> [m EXCEPT !.store[vs] = Append(@, LocationMax),
                          !.funcs[vs].insts = Append(@, inst)],
          r |-> MemoIdx(vs, Some(Len(m.funcs[vs].insts))),
          ok |-> TRUE]

\* MemoBuilder::push_const
MemoPushConst(m, c) ==
    [m |-> [m EXCEPT !.consts = Append(@, c)],
     r |-> MemoIdx(0, Some(Len(m.consts))),
     ok |-> TRUE]

\* MemoBuilder::push_var
MemoPushVar(m, v) == [m |-> m, r |-> MemoIdx(VarSetOf(v), None), ok |-> TRUE]

\* MemoBuilder::push_unop
MemoPushUnop(m, op, arg) ==
    Bind(EnsureLoad(m, arg.vars, arg), LAMBDA a :
        MemoPush(a.m, arg.vars, UnOpI(op, a.idx)))

\* MemoBuilder::push_binop
MemoPushBinop(m, op, a, b) ==
    Bind(EnsureLoad(m, BitOr(a.vars, b.vars), a), LAMBDA x :
        Bind(EnsureLoad(x.m, BitOr(a.vars, b.vars), b), LAMBDA y :
            MemoPush(y.m, BitOr(a.vars, b.vars), BinOpI(op, x.idx, y.idx))))

\* MemoBuilder::finish; func_for and last.idx.unwrap() may panic
MemoFinish(m, last) ==
    IF last.vars = 0 \/ last.idx = None
    THEN [m |-> m, r |-> last, ok |-> FALSE]
    ELSE [m |-> AddOutput(m, last.vars, last.idx[1]), r |-> last, ok |-> TRUE]

MemoApply(m, call) ==
    CASE call.m = "const" -> MemoPushConst(m, call.val)
      [] call.m = "var" -> MemoPushVar(m, call.val)
      [] call.m = "unop" -> MemoPushUnop(m, call.op, call.hs[1])
      [] call.m = "binop" -> MemoPushBinop(m, call.op, call.hs[1], call.hs[2])
      [] call.m = "finish" -> MemoFinish(m, call.hs[1])

-----------------------------------------------------------------------------
(* A sink call, as io::read issues it for one line (or at end of input),   *)
(* applied to the sink state s = [sink, pool, vars, gvn, sgvn].  The       *)
(* result r is the handle read stores under the line's name.               *)

Call(m, op, hs, val, loc) == [m |-> m, op |-> op, hs |-> hs, val |-> val, loc |-> loc]

Leaf(call) ==
    CASE call.m = "const" -> ConstI(call.val)
      [] call.m = "var" -> VarI(call.val)
      [] call.m = "load" -> LoadI(call.val, call.loc)

PosIndex(b) == [s |-> b.s, r |-> Pos(b.idx)]

InstsApply(s, call) ==
    Bind(CASE call.m \in {"const", "var", "load"} -> Push(s, Leaf(call))
           [] call.m = "unop" -> Push(s, UnOpI(call.op, call.hs[1].idx))
           [] call.m = "binop" ->
                 Push(s, BinOpI(call.op, call.hs[1].idx, call.hs[2].idx)),
         PosIndex)

SimplifyApply(s, call) ==
    CASE call.m \in {"const", "var", "load"} -> SimplifyPushLeaf(s, Leaf(call))
      [] call.m = "unop" -> SimplifyPushUnop(s, call.op, call.hs[1])
      [] call.m = "binop" -> SimplifyPushBinop(s, call.op, call.hs[1], call.hs[2])
      [] call.m = "finish" -> Bind(SimplifyFinish(s, call.hs[1]), PosResult)

Apply(s, call) == IF s.sink = "insts" THEN InstsApply(s, call) ELSE SimplifyApply(s, call)

\* The handles a sink has returned so far (the values of io::read's names).
\* Insts returns the index of every instruction it holds.  Simplify returns
\* Pos(i) for every instruction but the Neg instructions it creates for its
\* own use, and Neg(i) for a `neg` line applied to Pos(i).
HandlesOf(s) ==
    IF s.sink = "insts"
    THEN {Pos(i) : i \in 0 .. Len(s.pool) - 1}
    ELSE UNION {{Pos(i), Neg(i)} :
                  i \in {j \in 0 .. Len(s.pool) - 1 : ~IsUnOp(At(s.pool, j), "Neg")}}

LeafCalls ==
    {Call("const", "", <<>>, c, 0) : c \in InputConsts}
        \cup {Call("var", "", <<>>, v, 0) : v \in InputVars}
        \cup {Call("load", "", <<>>, l[1], l[2]) : l \in InputLoads}
UnopCalls(s) == {Call("unop", op, <<h>>, 0, 0) : op \in UnOps, h \in HandlesOf(s)}
BinopCalls(s) ==
    {Call("binop", op, <<h1, h2>>, 0, 0) : op \in BinOps, h1 \in HandlesOf(s), h2 \in HandlesOf(s)}
\* Simplify::finish consumes the sink
FinishCalls(s) ==
    IF s.sink = "simplify"
    THEN {Call("finish", "", <<h>>, 0, 0) : h \in HandlesOf(s)}
    ELSE {}

\* every line the reader can pass to the sink in state s
PushCalls(s) == LeafCalls \cup UnopCalls(s) \cup BinopCalls(s)

Sink == [sink |-> sink, pool |-> pool, vars |-> vars, gvn |-> gvn, sgvn |-> sgvn]

-----------------------------------------------------------------------------
(* The reader driving a sink: one action per InstSink method *)

Do(call) ==
    \E a \in {Apply(Sink, call)} :
        /\ ~done
        /\ Len(a.s.pool) <= MaxPool
        /\ pool' = a.s.pool
        /\ vars' = a.s.vars
        /\ gvn' = a.s.gvn
        /\ sgvn' = a.s.sgvn
        /\ done' = (call.m = "finish")
        /\ UNCHANGED <<sink, memoVars, reorderVars, emitVars, reassocVars, lruVars, constVars, readVars>>

\* the sinks a specification does not drive stay as constructed
GvnIdle ==
    /\ sink = "insts"
    /\ pool = <<>>
    /\ vars = <<>>
    /\ gvn = <<>>
    /\ sgvn = <<>>
    /\ done = FALSE

GvnInit ==
    /\ sink \in {"insts", "simplify"}
    /\ pool = <<>>
    /\ vars = <<>>
    /\ gvn = <<>>
    /\ sgvn = <<>>
    /\ done = FALSE

PushConst == \E c \in InputConsts : Do(Call("const", "", <<>>, c, 0))

PushVar == \E v \in InputVars : Do(Call("var", "", <<>>, v, 0))

PushLoad == \E l \in InputLoads : Do(Call("load", "", <<>>, l[1], l[2]))

PushUnop == \E call \in UnopCalls(Sink) : Do(call)

PushBinop == \E call \in BinopCalls(Sink) : Do(call)

Finish == \E call \in FinishCalls(Sink) : Do(call)

GvnNext ==
    \/ PushConst
    \/ PushVar
    \/ PushLoad
    \/ PushUnop
    \/ PushBinop
    \/ Finish

-----------------------------------------------------------------------------
(* The reader driving a MemoBuilder *)

Memo == [consts |-> consts, funcs |-> funcs, load |-> load, store |-> store]

\* the instructions pushed to the functions f .. 7, the Loads of ensure_load aside
RECURSIVE MemoInstsFrom(_, _)
MemoInstsFrom(m, f) ==
    IF f > 7 THEN 0
    ELSE Cardinality({i \in DOMAIN m.funcs[f].insts : m.funcs[f].insts[i].k # "Load"})
            + MemoInstsFrom(m, f + 1)

MemoInsts(m) == MemoInstsFrom(m, 1)

\* The handles a MemoBuilder has returned so far: one per constant, one per
\* variable, and one per instruction made by push (ensure_load keeps the
\* indices of its Loads to itself).
MemoHandles(m) ==
    {MemoIdx(0, Some(i)) : i \in 0 .. Len(m.consts) - 1}
        \cup {MemoIdx(VarSetOf(v), None) : v \in MemoInputVars}
        \cup UNION {{MemoIdx(f, Some(i)) :
                        i \in {j \in 0 .. Len(m.funcs[f].insts) - 1 :
                                  At(m.funcs[f].insts, j).k # "Load"}} : f \in Funcs}

MemoLeafCalls ==
    {Call("const", "", <<>>, c, 0) : c \in InputConsts}
        \cup {Call("var", "", <<>>, v, 0) : v \in MemoInputVars}
MemoUnopCalls(m) ==
    {Call("unop", op, <<h>>, 0, 0) : op \in MemoInputUnOps, h \in MemoHandles(m)}
MemoBinopCalls(m) ==
    {Call("binop", op, <<a, b>>, 0, 0) :
        op \in MemoInputBinOps, a \in MemoHandles(m), b \in MemoHandles(m)}
MemoFinishCalls(m) == {Call("finish", "", <<h>>, 0, 0) : h \in MemoHandles(m)}
MemoCalls(m) ==
    MemoLeafCalls \cup MemoUnopCalls(m) \cup MemoBinopCalls(m) \cup MemoFinishCalls(m)

\* a call that panics ends the run without a result
MemoDo(call) ==
    \E a \in {MemoApply(Memo, call)} :
        /\ ~mdone
        /\ a.ok
        /\ MemoInsts(a.m) <= MaxMemoInsts
        /\ Len(a.m.consts) <= MaxMemoConsts
        /\ consts' = a.m.consts
        /\ funcs' = a.m.funcs
        /\ load' = a.m.load
        /\ store' = a.m.store
        /\ mdone' = (call.m = "finish")
        /\ UNCHANGED <<gvnVars, reorderVars, emitVars, reassocVars, lruVars, constVars, readVars>>

MemoIdle ==
    /\ consts = MemoBuilderDefault.consts
    /\ funcs = MemoBuilderDefault.funcs
    /\ load = MemoBuilderDefault.load
    /\ store = MemoBuilderDefault.store
    /\ mdone = FALSE

MemoDoConst == \E c \in InputConsts : MemoDo(Call("const", "", <<>>, c, 0))

MemoDoVar == \E v \in MemoInputVars : MemoDo(Call("var", "", <<>>, v, 0))

MemoDoUnop == \E call \in MemoUnopCalls(Memo) : MemoDo(call)

MemoDoBinop == \E call \in MemoBinopCalls(Memo) : MemoDo(call)

MemoDoFinish == \E call \in MemoFinishCalls(Memo) : MemoDo(call)

MemoNext ==
    \/ MemoDoConst
    \/ MemoDoVar
    \/ MemoDoUnop
    \/ MemoDoBinop
    \/ MemoDoFinish

-----------------------------------------------------------------------------
(* ir::reorder::reorder on Insts {pool, vars, gvn} *)

ReorderLeaves == {VarI(0), VarI(1)}
ReorderUnOps == {"Neg"}
ReorderBinOps == {"Sub"}

\* the instructions a pool of n entries can hold
ReorderInsts(n) ==
    ReorderLeaves
        \cup {UnOpI(op, a) : op \in ReorderUnOps, a \in 0 .. n - 1}
        \cup {BinOpI(op, a, b) : op \in ReorderBinOps, a \in 0 .. n - 1, b \in 0 .. n - 1}

ArgsOf(p, i) == {At(p, i).args[k] : k \in DOMAIN At(p, i).args}

\* the instructions reachable from the set S in at most n steps
RECURSIVE Reach(_, _, _)
Reach(p, S, n) ==
    IF n = 0 THEN S ELSE Reach(p, S \cup UNION {ArgsOf(p, i) : i \in S}, n - 1)

Acyclic(p) ==
    \A i \in 0 .. Len(p) - 1 : i \notin Reach(p, ArgsOf(p, i), Len(p))

\* Insts.vars of an acyclic pool: the variables each instruction depends on
RECURSIVE VarsOf(_, _)
VarsOf(p, i) ==
    LET inst == At(p, i)
    IN CASE inst.k = "Const" -> 0
         [] inst.k = "Var" -> VarSetOf(inst.val)
         [] inst.k = "Load" -> inst.val
         [] inst.k = "UnOp" -> VarsOf(p, inst.args[1])
         [] inst.k = "BinOp" -> BitOr(VarsOf(p, inst.args[1]), VarsOf(p, inst.args[2]))

\* Insts.gvn of a pool: the first index of every instruction
GvnOf(p) ==
    [inst \in {p[i] : i \in DOMAIN p} |->
        CHOOSE i \in 0 .. Len(p) - 1 :
            At(p, i) = inst /\ \A j \in 0 .. i - 1 : At(p, j) # inst]

ReorderPools ==
    UNION {{p \in [1 .. n -> ReorderInsts(n)] : Acyclic(p)} : n \in 0 .. MaxReorder}

ReorderIdle ==
    /\ input = [pool |-> <<>>, vars |-> <<>>]
    /\ placed = 0
    /\ remap = <<>>
    /\ stack = <<>>
    /\ rpc = "idle"

ReorderInit ==
    /\ sink = "insts"
    /\ pool \in ReorderPools
    /\ vars = [i \in 1 .. Len(pool) |-> VarsOf(pool, i - 1)]
    /\ gvn = GvnOf(pool)
    /\ sgvn = <<>>
    /\ done = FALSE
    /\ input = [pool |-> pool, vars |-> vars]
    /\ placed = 0
    /\ remap = <<>>
    /\ stack = <<>>
    /\ rpc = "enter"

Top == stack[Len(stack)]

Pop(st) == SubSeq(st, 1, Len(st) - 1)

\* the arguments of idx that have no place yet, in the order the loop
\* `for &arg in insts[idx].args().iter().rev()` pushes them
UnplacedArgs(idx) ==
    LET args == At(pool, idx).args
        rev == [k \in 1 .. Len(args) |-> args[Len(args) + 1 - k]]
    IN SelectSeq(rev, LAMBDA a : At(remap, a) = None)

\* lines 4-11: return on an empty pool, else clear gvn and start at the root
ReorderEnter ==
    /\ rpc = "enter"
    /\ IF pool = <<>>
       THEN /\ rpc' = "done"
            /\ UNCHANGED <<gvn, placed, remap, stack>>
       ELSE /\ gvn' = <<>>
            /\ placed' = 0
            /\ remap' = [i \in 1 .. Len(pool) |-> None]
            /\ stack' = <<Len(pool) - 1>>
            /\ rpc' = "loop"
    /\ UNCHANGED <<sink, pool, vars, sgvn, done, input, memoVars, emitVars, reassocVars, lruVars, constVars, readVars>>

\* lines 12-24: the top has no place and some argument has none: push them
ReorderDescend ==
    /\ rpc = "loop"
    /\ stack # <<>>
    /\ At(remap, Top) = None
    /\ UnplacedArgs(Top) # <<>>
    /\ stack' = stack \o UnplacedArgs(Top)
    /\ UNCHANGED <<gvnVars, memoVars, emitVars, reassocVars, lruVars, constVars, readVars, input, placed, remap, rpc>>

\* lines 12-29: the top has no place and every argument has one: place it
ReorderPlace ==
    /\ rpc = "loop"
    /\ stack # <<>>
    /\ At(remap, Top) = None
    /\ UnplacedArgs(Top) = <<>>
    /\ remap' = [remap EXCEPT ![Top + 1] = Some(placed)]
    /\ placed' = placed + 1
    /\ stack' = Pop(stack)
    /\ UNCHANGED <<gvnVars, memoVars, emitVars, reassocVars, lruVars, constVars, readVars, input, rpc>>

\* lines 12-14, 29: the top was placed through another user: pop it
ReorderSkip ==
    /\ rpc = "loop"
    /\ stack # <<>>
    /\ At(remap, Top) # None
    /\ stack' = Pop(stack)
    /\ UNCHANGED <<gvnVars, memoVars, emitVars, reassocVars, lruVars, constVars, readVars, input, placed, remap, rpc>>

\* line 30: the stack is empty
ReorderExit ==
    /\ rpc = "loop"
    /\ stack = <<>>
    /\ rpc' = "rebuild"
    /\ UNCHANGED <<gvnVars, memoVars, emitVars, reassocVars, lruVars, constVars, readVars, input, placed, remap, stack>>

\* the old index placed at new index k
OldOf(k) == CHOOSE old \in 0 .. Len(remap) - 1 : At(remap, old) = Some(k)

RemappedNot(inst) == inst
Remapped(inst) ==
    [inst EXCEPT !.args = [k \in DOMAIN inst.args |-> At(remap, inst.args[k])[1]]]

\* lines 33-48: the new pool and vars
ReorderRebuild ==
    /\ rpc = "rebuild"
    /\ pool' = [k \in 1 .. placed |-> Remapped(At(pool, OldOf(k - 1)))]
    /\ vars' = [k \in 1 .. placed |-> At(vars, OldOf(k - 1))]
    /\ rpc' = "done"
    /\ UNCHANGED <<sink, gvn, sgvn, done, memoVars, emitVars, reassocVars, lruVars, constVars, readVars, input, placed, remap, stack>>

ReorderNext ==
    \/ ReorderEnter
    \/ ReorderDescend
    \/ ReorderPlace
    \/ ReorderSkip
    \/ ReorderExit
    \/ ReorderRebuild

-----------------------------------------------------------------------------
(* codegen: Register, MemorySpace, regalloc::Allocation *)

\* A Register and an InstIdx are their idx(); a MemorySpace is its NonZero<u8>.
STACK == 1
MemorySpaceOf(vs) == vs + 2
MemIdx(mem) == mem - 1

SinkLoads == {"None", "SpillAny", "PreferDead", "RequireDead", "All"}

\* Unallocated, Reg(register) or SunkLoad(pool index)
RegisterState(k, i) == [k |-> k, i |-> i]

AllocationDefault == [reg |-> RegisterState("Unallocated", 0), mem |-> None, loc |-> 0]

\* assert_eq!(self, &Allocation::default()) panics on an Allocation that was
\* given a location before
InitialLocation(alloc, mem, loc) ==
    IF alloc # AllocationDefault THEN [panic |-> TRUE, alloc |-> alloc]
    ELSE [panic |-> FALSE, alloc |-> [alloc EXCEPT !.mem = Some(mem), !.loc = loc]]

-----------------------------------------------------------------------------
(* regalloc::Lru: a circular doubly linked list over the registers *)

LruNew(len) ==
    [data |-> [i \in 1 .. len |->
                  [prev |-> ((i - 1) + len - 1) % len, next |-> ((i - 1) + 1) % len]],
     head |-> 0]

\* d1 .. d5 are the assignments in the order the code makes them
LruMarkUnused(l, i) ==
    IF i = l.head
    THEN [l EXCEPT !.head = At(l.data, i).next]
    ELSE LET prev == At(l.data, l.head).prev
             d1 == [l.data EXCEPT ![l.head + 1].prev = i]
             d2 == [d1 EXCEPT ![prev + 1].next = i]
             old == At(d2, i)
             d3 == [d2 EXCEPT ![i + 1] = [prev |-> prev, next |-> l.head]]
             d4 == [d3 EXCEPT ![old.prev + 1].next = old.next]
             d5 == [d4 EXCEPT ![old.next + 1].prev = old.prev]
         IN [l EXCEPT !.data = IF prev # i THEN d5 ELSE d1]

LruMarkUsedKeepHead(l, i) == LruMarkUnused(l, i)
LruMarkUsed(l, i) == [LruMarkUnused(l, i) EXCEPT !.head = i]

LruPop(l) ==
    LET out == At(l.data, l.head).prev
    IN [l |-> [l EXCEPT !.head = out], r |-> out]

RECURSIVE LruWalk(_, _, _)
LruWalk(l, free_regs, i) ==
    LET j == At(l.data, i).prev
    IN IF j \in free_regs THEN [l |-> LruMarkUsed(l, j), r |-> j, ok |-> TRUE]
       ELSE IF j = l.head THEN [l |-> l, r |-> j, ok |-> FALSE]
       ELSE LruWalk(l, free_regs, j)

\* pop_first_in that takes the oldest register whatever the set
LruPopFirstInOldest(l, free_regs) == [l |-> LruPop(l).l, r |-> LruPop(l).r, ok |-> TRUE]

LruPopFirstIn(l, free_regs) == LruWalk(l, free_regs, l.head)

-----------------------------------------------------------------------------
(* regalloc::DirtyPool: the ring of queued sunk loads *)

DirtyPoolLen == 32

DirtyPoolNew(n) ==
    [loads |-> [i \in 0 .. DirtyPoolLen - 1 |-> [inst |-> None, free_generation |-> 0]],
     patch_at |-> [i \in 0 .. DirtyPoolLen - 1 |-> 0],
     front |-> 0,
     dirty_before |-> [i \in 1 .. n |-> 0]]

DirtyPushLoad(p, ld, patch_at, free_generation) ==
    LET idx == p.front % DirtyPoolLen
    IN [p |-> [p EXCEPT !.front = @ + 1,
                        !.loads[idx] = [inst |-> Some(ld), free_generation |-> free_generation],
                        !.patch_at[idx] = patch_at],
        r |-> idx]

MarkDirtyNever(p, reg) == p
MarkDirty(p, reg) == [p EXCEPT !.dirty_before[reg + 1] = p.front]

\* get_clean_regs that takes the handle to be of the block front is in
GetCleanRegsSameBlock(p, idx, ld) ==
    LET pos == idx + (p.front - (p.front % DirtyPoolLen))
    IN IF p.loads[idx].inst # Some(ld)
       THEN [clean |-> {}, free_generation |-> 0, patch_at |-> 0,
             present |-> FALSE, pos |-> 0]
       ELSE [clean |-> {reg \in 0 .. Len(p.dirty_before) - 1 :
                            pos >= At(p.dirty_before, reg)},
             free_generation |-> p.loads[idx].free_generation,
             patch_at |-> p.patch_at[idx],
             present |-> TRUE, pos |-> pos]

\* hi: idx |= front & !(len - 1); pos: if idx >= front { idx -= len }.  A
\* negative pos stands for the usize pos + 2^64 the subtraction wraps to when
\* overflow checks are off (with them on it panics); it is above every
\* dirty_before.  present and pos are reported next to the three results.
GetCleanRegs(p, idx, ld) ==
    LET hi == idx + (p.front - (p.front % DirtyPoolLen))
        pos == IF hi >= p.front THEN hi - DirtyPoolLen ELSE hi
    IN IF p.loads[idx].inst # Some(ld)
       THEN [clean |-> {}, free_generation |-> 0, patch_at |-> 0,
             present |-> FALSE, pos |-> 0]
       ELSE [clean |-> {reg \in 0 .. Len(p.dirty_before) - 1 :
                            pos < 0 \/ pos >= At(p.dirty_before, reg)},
             free_generation |-> p.loads[idx].free_generation,
             patch_at |-> p.patch_at[idx],
             present |-> TRUE, pos |-> pos]

-----------------------------------------------------------------------------
(* x86::X86Target and its instructions *)

STRIDE == 4

\* XmmMem::Xmm(Xmm(reg)) and XmmMem::Mem(Address(mem, loc, stride))
XmmOp(reg) == [k |-> "Xmm", reg |-> reg]
MemOp(mem, loc, stride) == [k |-> "Mem", addr |-> <<mem, loc, stride>>]

XmmRmR(op, src1, src2, dst) ==
    [k |-> "XmmRmR", op |-> op, src1 |-> src1, src2 |-> src2, dst |-> dst]
XmmUnaryRmRVex(op, src, dst) ==
    [k |-> "XmmUnaryRmRVex", op |-> op, src |-> src, dst |-> dst]
XmmMovRMVex(op, src, dst) ==
    [k |-> "XmmMovRMVex", op |-> op, src |-> src, dst |-> dst]

X86TargetNew(vectors) ==
    LET set == IF vectors = {} THEN {}
               ELSE {MemIdx(MemorySpaceOf(vs)) : vs \in vectors} \cup {0, 1}
    IN [vectors |-> set, stride |-> IF set # {} THEN STRIDE ELSE 1, insts |-> <<>>]

TargetEmitLoad(t, reg, mem, loc) ==
    [t EXCEPT !.insts = Append(@, XmmUnaryRmRVex(
        IF MemIdx(mem) \in t.vectors THEN "Vmovaps" ELSE "Vbroadcastss",
        MemOp(mem, loc, t.stride), reg))]

TargetEmitStore(t, reg, mem, loc) ==
    [t EXCEPT !.insts = Append(@, XmmMovRMVex(
        IF MemIdx(mem) \in t.vectors THEN "Vmovaps" ELSE "Vmovd",
        reg, MemOp(mem, loc, t.stride)))]

\* self.insts[patch_at] panics out of bounds, and a store is unreachable!()
PatchPanics(t, patch_at) ==
    \/ patch_at >= Len(t.insts)
    \/ At(t.insts, patch_at).k = "XmmMovRMVex"

PatchSunkLoad(t, patch_at, reg) ==
    IF At(t.insts, patch_at).k = "XmmRmR"
    THEN [t EXCEPT !.insts[patch_at + 1].src2 = XmmOp(reg)]
    ELSE [t EXCEPT !.insts[patch_at + 1].src = XmmOp(reg)]

-----------------------------------------------------------------------------
(* regalloc::Registers.  The record carries fields the struct does not have:  *)
(* panic, a call on it has panicked and nothing after it was executed;       *)
(* debug_failed, a debug_assert_eq! of get_reg or clobber compared two       *)
(* different values; patches, the calls float_load made of patch_sunk_load:  *)
(* each with the length of target.insts at the call, whether it returned,    *)
(* the home clobber took for a value it evicted that had none, the free      *)
(* slots clobber passed over as too young, what the register held and what   *)
(* clobber returned; kept, the queued loads float_load found no register     *)
(* for; evictions, the calls get_reg made of clobber that found the popped   *)
(* register holding a value, with the state before and after; and queued,   *)
(* the loads given to push_load, in order.  patches and kept also record     *)
(* front, the queue position of the load, and what get_clean_regs found.     *)

RegistersNew(config, allocs, n, target) ==
    [config |-> config,
     allocs |-> allocs,
     recent |-> LruNew(n),
     live |-> [i \in 1 .. n |-> None],
     dirty_pool |-> DirtyPoolNew(n),
     stack_slots |-> 0,
     free_slots |-> <<>>,
     free_generation |-> 0,
     target |-> target,
     panic |-> FALSE,
     debug_failed |-> FALSE,
     patches |-> <<>>,
     kept |-> <<>>,
     evictions |-> <<>>,
     queued |-> <<>>]

\* the position in the queue of the last push_load of idx
LastPush(queued, idx) ==
    (CHOOSE k \in DOMAIN queued :
        queued[k] = idx /\ \A j \in DOMAIN queued : queued[j] = idx => j <= k) - 1

\* SpillHome taking the last free slot whatever its generation
SpillHomeAnyGeneration(s, alloc, free_generation) ==
    LET last == Len(s.free_slots)
    IN IF alloc.mem # None
       THEN [s |-> s, mem |-> alloc.mem[1], loc |-> alloc.loc]
       ELSE IF last > 0
       THEN [s |-> [s EXCEPT !.free_slots = SubSeq(s.free_slots, 1, last - 1)],
             mem |-> s.free_slots[last][2], loc |-> s.free_slots[last][3]]
       ELSE [s |-> [s EXCEPT !.stack_slots = @ + 1], mem |-> STACK, loc |-> s.stack_slots]

\* SpillHome giving every evicted value a new stack slot
SpillHomeAlwaysNew(s, alloc, free_generation) ==
    [s |-> [s EXCEPT !.stack_slots = @ + 1], mem |-> STACK, loc |-> s.stack_slots]

\* The home clobber gives to the value it evicts: its own, the last free slot
\* of an older generation (rposition, then swap_remove), or a new stack slot.
SpillHome(s, alloc, free_generation) ==
    LET hits == {i \in 1 .. Len(s.free_slots) : s.free_slots[i][1] < free_generation}
        pos == CHOOSE i \in hits : \A j \in hits : j <= i
        last == Len(s.free_slots)
        removed == IF pos = last THEN SubSeq(s.free_slots, 1, last - 1)
                   ELSE [SubSeq(s.free_slots, 1, last - 1) EXCEPT ![pos] = s.free_slots[last]]
    IN IF alloc.mem # None
       THEN [s |-> s, mem |-> alloc.mem[1], loc |-> alloc.loc]
       ELSE IF hits # {}
       THEN [s |-> [s EXCEPT !.free_slots = removed],
             mem |-> s.free_slots[pos][2], loc |-> s.free_slots[pos][3]]
       ELSE [s |-> [s EXCEPT !.stack_slots = @ + 1], mem |-> STACK, loc |-> s.stack_slots]

\* clobber that leaves the evicted value its register state
ClobberKeepsState(s, idx, reg, free_generation) ==
    Bind([s EXCEPT !.allocs[idx + 1].reg = RegisterState("Reg", reg),
                   !.dirty_pool = MarkDirty(@, reg),
                   !.live[reg + 1] = Some(idx)], LAMBDA s1 :
        IF At(s.live, reg) = None THEN [s |-> s1, r |-> None]
        ELSE Bind(SpillHome(s1, At(s1.allocs, At(s.live, reg)[1]), free_generation),
                  LAMBDA h :
            [s |-> [h.s EXCEPT !.allocs[At(s.live, reg)[1] + 1].mem = Some(h.mem),
                               !.allocs[At(s.live, reg)[1] + 1].loc = h.loc],
             r |-> Some(<<h.mem, h.loc>>)]))

Clobber(s, idx, reg, free_generation) ==
    Bind([s EXCEPT !.allocs[idx + 1].reg = RegisterState("Reg", reg),
                   !.dirty_pool = MarkDirty(@, reg),
                   !.live[reg + 1] = Some(idx)], LAMBDA s0 :
    Bind([s0 EXCEPT !.debug_failed =
            @ \/ (At(s.live, reg) # None
                    /\ At(s0.allocs, At(s.live, reg)[1]).reg # RegisterState("Reg", reg))],
         LAMBDA s1 :
        IF At(s.live, reg) = None THEN [s |-> s1, r |-> None]
        ELSE Bind(SpillHome(s1, At(s1.allocs, At(s.live, reg)[1]), free_generation),
                  LAMBDA h :
            [s |-> [h.s EXCEPT !.allocs[At(s.live, reg)[1] + 1] =
                        [reg |-> RegisterState("Unallocated", 0),
                         mem |-> Some(h.mem), loc |-> h.loc]],
             r |-> Some(<<h.mem, h.loc>>)])))

FreeReg(s, reg) ==
    [s EXCEPT !.recent = LruMarkUnused(@, reg), !.live[reg + 1] = None]

AddressOf(s, idx) ==
    IF At(s.allocs, idx).mem = None THEN None
    ELSE Some(<<At(s.allocs, idx).mem[1], At(s.allocs, idx).loc>>)

\* dead_regs counting every register as dead
DeadRegsAll(items) == 0 .. Len(items) - 1
DeadRegs(items) == {reg \in 0 .. Len(items) - 1 : At(items, reg) = None}

\* The RegisterState::SunkLoad arm of float_load.
FloatSunk(s, idx, pool_idx) ==
    Bind(GetCleanRegs(s.dirty_pool, pool_idx, idx), LAMBDA g :
    Bind(CASE s.config.sink_loads = "PreferDead" ->
                IF g.clean \cap DeadRegs(s.live) # {}
                THEN g.clean \cap DeadRegs(s.live) ELSE g.clean
           [] s.config.sink_loads = "RequireDead" -> g.clean \cap DeadRegs(s.live)
           [] OTHER -> g.clean, LAMBDA clean_regs :
        IF clean_regs = {}
        THEN [s |-> [s EXCEPT !.allocs[idx + 1].reg = RegisterState("Unallocated", 0),
                              !.kept = Append(@, [at |-> g.patch_at, load |-> idx,
                                                  clean |-> g.clean,
                                                  dead |-> DeadRegs(s.live),
                                                  present |-> g.present, pos |-> g.pos,
                                                  front |-> s.dirty_pool.front,
                                                  pushed |-> LastPush(s.queued, idx)])],
              r |-> None]
        ELSE Bind(LruPopFirstIn(s.recent, clean_regs), LAMBDA p :
             IF ~p.ok THEN [s |-> [s EXCEPT !.panic = TRUE], r |-> None]
             ELSE Bind(Clobber([s EXCEPT !.recent = p.l], idx, p.r, g.free_generation),
                       LAMBDA c :
                  Bind([at |-> g.patch_at, reg |-> p.r, load |-> idx,
                        len |-> Len(c.s.target.insts),
                        returned |-> ~PatchPanics(c.s.target, g.patch_at),
                        home |-> IF At(s.live, p.r) # None
                                    /\ At(s.allocs, At(s.live, p.r)[1]).mem = None
                                 THEN c.r ELSE None,
                        young |-> {s.free_slots[i] : i \in
                                    {k \in DOMAIN s.free_slots :
                                        s.free_slots[k][1] >= g.free_generation}},
                        clean |-> g.clean, live |-> At(s.live, p.r), other |-> c.r,
                        present |-> g.present, pos |-> g.pos,
                        front |-> s.dirty_pool.front,
                        pushed |-> LastPush(s.queued, idx)],
                       LAMBDA e :
                  IF PatchPanics(c.s.target, g.patch_at)
                  THEN [s |-> [c.s EXCEPT !.panic = TRUE, !.patches = Append(@, e)],
                        r |-> None]
                  ELSE [s |-> [c.s EXCEPT !.target = PatchSunkLoad(@, g.patch_at, p.r),
                                          !.patches = Append(@, e)],
                        r |-> Some(p.r)])))))

FloatLoad(s, idx) ==
    CASE At(s.allocs, idx).reg.k = "Unallocated" -> [s |-> s, r |-> None]
      [] At(s.allocs, idx).reg.k = "Reg" -> [s |-> s, r |-> Some(At(s.allocs, idx).reg.i)]
      [] At(s.allocs, idx).reg.k = "SunkLoad" -> FloatSunk(s, idx, At(s.allocs, idx).reg.i)

GetReg(s, idx) ==
    IF s.panic THEN [s |-> s, r |-> 0]
    ELSE Bind(FloatLoad(s, idx), LAMBDA f :
        IF f.s.panic THEN [s |-> f.s, r |-> 0]
        ELSE IF f.r # None
        THEN [s |-> [f.s EXCEPT !.recent = LruMarkUsed(@, f.r[1]),
                                !.dirty_pool = MarkDirty(@, f.r[1]),
                                !.debug_failed = @ \/ At(f.s.live, f.r[1]) # Some(idx)],
              r |-> f.r[1]]
        ELSE Bind(LruPop(f.s.recent), LAMBDA p :
             Bind(Clobber([f.s EXCEPT !.recent = p.l], idx, p.r, f.s.free_generation),
                  LAMBDA c :
                [s |-> IF c.r # None
                       THEN [c.s EXCEPT
                                !.target = TargetEmitLoad(@, p.r, c.r[1][1], c.r[1][2]),
                                !.evictions = Append(@,
                                    [for |-> idx, reg |-> p.r,
                                     victim |-> At(f.s.live, p.r)[1],
                                     before |-> At(f.s.allocs, At(f.s.live, p.r)[1]),
                                     after |-> At(c.s.allocs, At(f.s.live, p.r)[1]),
                                     stack_slots |-> <<f.s.stack_slots, c.s.stack_slots>>,
                                     free_slots |-> <<f.s.free_slots, c.s.free_slots>>,
                                     len |-> Len(c.s.target.insts)])]
                       ELSE c.s,
                 r |-> p.r])))

GetOutputReg(s, idx) ==
    Bind(GetReg(s, idx), LAMBDA g :
        IF g.s.panic THEN g
        ELSE Bind(FreeReg(g.s, g.r), LAMBDA s1 :
            IF At(s1.allocs, idx).mem = None THEN [s |-> s1, r |-> g.r]
            ELSE [s |-> [s1 EXCEPT
                    !.target = TargetEmitStore(@, g.r, At(s1.allocs, idx).mem[1],
                                               At(s1.allocs, idx).loc),
                    !.free_slots = Append(@, <<s1.free_generation,
                                               At(s1.allocs, idx).mem[1],
                                               At(s1.allocs, idx).loc>>),
                    !.free_generation = @ + 1],
                  r |-> g.r]))

EmitLoad(s, idx, mem, loc) ==
    IF s.panic \/ At(s.allocs, idx).reg.k # "Reg" THEN s
    ELSE Bind(At(s.allocs, idx).reg.i, LAMBDA reg :
        FreeReg([s EXCEPT !.dirty_pool = MarkDirty(@, reg),
                          !.target = TargetEmitLoad(@, reg, mem, loc)], reg))

SinkLoad(s, idx, patch_at) ==
    IF s.config.sink_loads = "None" THEN [s |-> s, r |-> FALSE]
    ELSE Bind(FloatLoad(s, idx), LAMBDA f :
        IF f.s.panic \/ f.r # None THEN [s |-> f.s, r |-> FALSE]
        ELSE IF f.s.config.sink_loads = "All" THEN [s |-> f.s, r |-> TRUE]
        ELSE Bind(DirtyPushLoad(f.s.dirty_pool, idx, patch_at, f.s.free_generation), LAMBDA q :
            [s |-> [f.s EXCEPT !.dirty_pool = q.p,
                               !.queued = Append(@, idx),
                               !.allocs[idx + 1].reg = RegisterState("SunkLoad", q.r)],
             r |-> TRUE]))

-----------------------------------------------------------------------------
(* x86::emit: the backward walk over one MemoizedFunc *)

\* let neg_alloc = allocs.len()
NegAlloc(f) == Len(f.insts)

\* the calls emit makes to initial_location on the Allocation of instruction
\* idx, in order: for a Load its cell, then every output slot, from slot loc
\* on, that names idx
LoadCall(f, idx) ==
    IF At(f.insts, idx).k = "Load"
    THEN <<<<MemorySpaceOf(At(f.insts, idx).val), At(f.insts, idx).loc>>>>
    ELSE <<>>

RECURSIVE OutputCalls(_, _, _)
OutputCalls(f, idx, loc) ==
    IF loc >= Len(f.outputs) THEN <<>>
    ELSE (IF At(f.outputs, loc) = Some(idx) THEN <<<<MemorySpaceOf(f.vars), loc>>>> ELSE <<>>)
             \o OutputCalls(f, idx, loc + 1)

RECURSIVE InitialLocations(_, _)
InitialLocations(alloc, calls) ==
    IF calls = <<>> THEN [panic |-> FALSE, alloc |-> alloc]
    ELSE IF InitialLocation(alloc, calls[1][1], calls[1][2]).panic
    THEN [panic |-> TRUE, alloc |-> alloc]
    ELSE InitialLocations(InitialLocation(alloc, calls[1][1], calls[1][2]).alloc, Tail(calls))

\* the allocs emit builds: Loads and outputs are given their home, and
\* neg_alloc is pushed last; emit panics when one of the calls does
EmitAllocs(f) ==
    LET a == [i \in 1 .. Len(f.insts) |->
                InitialLocations(AllocationDefault,
                                 LoadCall(f, i - 1) \o OutputCalls(f, i - 1, 0))]
    IN [panic |-> \E i \in 1 .. Len(f.insts) : a[i].panic,
        allocs |-> [i \in 1 .. Len(f.insts) + 1 |->
                      IF i = Len(f.insts) + 1
                      THEN InitialLocation(AllocationDefault, MemorySpaceOf(0),
                                           f.neg_const).alloc
                      ELSE a[i].alloc]]

XmmRmROpcode(op) ==
    CASE op = "Add" -> "Vaddps"
      [] op = "Sub" -> "Vsubps"
      [] op = "Mul" -> "Vmulps"
      [] op = "Min" -> "Vminps"
      [] op = "Max" -> "Vmaxps"

PushInst(s, inst) ==
    IF s.panic THEN s ELSE [s EXCEPT !.target.insts = Append(@, inst)]

\* x86::sink_load
X86SinkLoad(s, arg) ==
    LET xmm(s1) == Bind(GetReg(s1, arg), LAMBDA g : [s |-> g.s, r |-> XmmOp(g.r)])
    IN IF s.panic THEN [s |-> s, r |-> XmmOp(0)]
       ELSE IF AddressOf(s, arg) # None
               /\ MemIdx(AddressOf(s, arg)[1][1]) \in s.target.vectors
       THEN Bind(SinkLoad(s, arg, Len(s.target.insts)), LAMBDA q :
                IF q.r
                THEN [s |-> q.s,
                      r |-> MemOp(AddressOf(s, arg)[1][1], AddressOf(s, arg)[1][2],
                                  s.target.stride)]
                ELSE xmm(q.s))
       ELSE xmm(s)

UnOpArm(s, f, idx) ==
    Bind(GetOutputReg(s, idx), LAMBDA d :
        CASE At(f.insts, idx).op = "Neg" ->
                Bind(X86SinkLoad(d.s, NegAlloc(f)), LAMBDA sign :
                Bind(GetReg(sign.s, At(f.insts, idx).args[1]), LAMBDA arg :
                    PushInst(arg.s, XmmRmR("Vxorps", arg.r, sign.r, d.r))))
          [] At(f.insts, idx).op = "Square" ->
                Bind(GetReg(d.s, At(f.insts, idx).args[1]), LAMBDA arg :
                    PushInst(arg.s, XmmRmR("Vmulps", arg.r, XmmOp(arg.r), d.r)))
          [] At(f.insts, idx).op = "Sqrt" ->
                Bind(X86SinkLoad(d.s, At(f.insts, idx).args[1]), LAMBDA arg :
                    PushInst(arg.s, XmmUnaryRmRVex("Vsqrtps", arg.r, d.r))))

BinOpArm(s, f, idx) ==
    Bind(GetOutputReg(s, idx), LAMBDA d :
    Bind(X86SinkLoad(d.s, At(f.insts, idx).args[2]), LAMBDA src2 :
    Bind(GetReg(src2.s, At(f.insts, idx).args[1]), LAMBDA src1 :
        PushInst(src1.s, XmmRmR(XmmRmROpcode(At(f.insts, idx).op), src1.r, src2.r, d.r)))))

LoadArm(s, f, idx) ==
    EmitLoad(s, idx, MemorySpaceOf(At(f.insts, idx).val), At(f.insts, idx).loc)

\* The MemoizedFuncs given to emit: value-numbered instructions in SSA order
\* over the Loads of x (a vector) and of y (a scalar to broadcast).
X86Regs == 16                           \* Registers::new(allocs, 16, ..)

RECURSIVE EmitPrograms(_)
EmitPrograms(n) ==
    IF n = 0 THEN {<<>>}
    ELSE {Append(p[1], p[2]) :
            p \in {q \in EmitPrograms(n - 1) \X
                        ({LoadI(1, 0), LoadI(2, 0)}
                         \cup {UnOpI(op, a) : op \in UnOps, a \in 0 .. n - 2}
                         \cup {BinOpI("Sub", a, b) : a \in 0 .. n - 2, b \in 0 .. n - 2}) :
                      \A i \in 1 .. n - 1 : q[1][i] # q[2]}}

ComputedSet(insts) == {i \in 0 .. Len(insts) - 1 : At(insts, i).k # "Load"}

\* a function of {x, y}: any set of its computed values is exported, in index order
EmitFuncs ==
    {[insts |-> p[1],
      outputs |-> [i \in 1 .. Cardinality(p[2]) |->
                      Some(CHOOSE x \in p[2] : Cardinality({y \in p[2] : y < x}) = i - 1)],
      vars |-> 3, neg_const |-> 1] :
        p \in {q \in (UNION {EmitPrograms(n) : n \in 1 .. MaxFuncLen})
                        \X SUBSET (0 .. MaxFuncLen - 1) : q[2] \subseteq ComputedSet(q[1])}}

\* A function with more values in flight than x86::emit has registers: a load
\* per register, two negations, and then the square of every load.
WideFunc ==
    [insts |-> [i \in 1 .. 2 * X86Regs + 2 |->
                  IF i <= X86Regs THEN LoadI(1, i - 1)
                  ELSE IF i = X86Regs + 1 THEN UnOpI("Neg", 0)
                  ELSE IF i = X86Regs + 2 THEN UnOpI("Neg", X86Regs)
                  ELSE UnOpI("Square", i - X86Regs - 3)],
     outputs |-> <<>>, vars |-> 3, neg_const |-> 1]

\* A function that has `pads` values in flight in registers while the
\* instructions of f run: ahead of them the pads, by turns a Load, its
\* negation and the square root of that, and behind them the square of every
\* pad, the last `outs` of which are outputs.
ShiftInst(inst, n) ==
    IF inst.args = <<>> THEN inst
    ELSE [inst EXCEPT !.args = [k \in DOMAIN inst.args |-> inst.args[k] + n]]

PadFunc(f, pads, outs) ==
    LET n == Len(f.insts)
        k == Len(f.outputs)
    IN [insts |-> [i \in 1 .. 2 * pads + n |->
                    IF i <= pads
                    THEN (IF (i - 1) % 3 = 0 THEN LoadI(1, i)
                          ELSE IF (i - 1) % 3 = 1 THEN UnOpI("Neg", i - 2)
                          ELSE UnOpI("Sqrt", i - 2))
                    ELSE IF i <= pads + n THEN ShiftInst(f.insts[i - pads], pads)
                    ELSE UnOpI("Square", i - pads - n - 1)],
        outputs |-> [j \in 1 .. k + outs |->
                       IF j <= k THEN Some(f.outputs[j][1] + pads)
                       ELSE Some(2 * pads + n - 1 - (j - k - 1))],
        vars |-> f.vars, neg_const |-> f.neg_const]

\* pads for every register, or for all but FreeRegs of them; and, for the
\* functions without outputs, pads for every register and no output at all
PadFuncs ==
    {PadFunc(f, pads, PadOutputs) : f \in EmitFuncs, pads \in {X86Regs - FreeRegs, X86Regs}}
        \cup {PadFunc(f, X86Regs, 0) : f \in {g \in EmitFuncs : g.outputs = <<>>}}

\* A function that keeps the queue of sunk loads moving: v0 and m = before +
\* between other loads, t0 = v0 squared, then a chain of subtractions t - v
\* whose second operands are, in the order of the backward walk, `before`
\* of the other loads, v0, and `between` more of them.  The walk queues v0
\* at position `before` and asks for it in a register at t0.
QueueFunc(before, between) ==
    LET m == before + between
    IN [insts |-> [i \in 1 .. 2 * m + 3 |->
                    IF i <= m + 1 THEN LoadI(1, i - 1)
                    ELSE IF i = m + 2 THEN UnOpI("Square", 0)
                    ELSE IF i <= m + 2 + between THEN BinOpI("Sub", i - 2, i - m - 2)
                    ELSE IF i = m + 3 + between THEN BinOpI("Sub", i - 2, 0)
                    ELSE BinOpI("Sub", i - 2, i - m - 3)],
        outputs |-> <<Some(2 * m + 2)>>, vars |-> 3, neg_const |-> 1]

QueueBefore == {0, 1, 31, 33}
QueueBetween == {0, 30, 31, 32, 33}

QueueFuncs == {QueueFunc(b, n) : b \in QueueBefore, n \in QueueBetween}

\* the functions emit is run on
\* Functions that export a Load, or one value in two slots, or leave a slot
\* undefined: v0 = Load{x, 0}; v1 = neg v0 with every list of outputs.
ExportFuncs ==
    {[insts |-> <<LoadI(1, 0), UnOpI("Neg", 0)>>, outputs |-> o, vars |-> 3, neg_const |-> 1] :
        o \in UNION {[1 .. n -> {None, Some(0), Some(1)}] : n \in 0 .. MaxOutputs}}

EmitInputs == EmitFuncs \cup ExportFuncs \cup PadFuncs \cup {WideFunc} \cup QueueFuncs

EmitIdle ==
    /\ func = [insts |-> <<>>, outputs |-> <<>>, vars |-> 0, neg_const |-> 0]
    /\ regs = RegistersNew([sink_loads |-> "SpillAny"], <<>>, 0, X86TargetNew({}))
    /\ epc = "idle"
    /\ eidx = 0

\* emit up to the walk: when building allocs panics no Registers is made
EmitInit ==
    /\ \E f \in EmitInputs, c \in SinkLoads :
        /\ func = f
        /\ regs = IF EmitAllocs(f).panic
                  THEN RegistersNew([sink_loads |-> "SpillAny"], <<>>, 0, X86TargetNew({}))
                  ELSE RegistersNew([sink_loads |-> c], EmitAllocs(f).allocs, X86Regs,
                                    X86TargetNew({f.vars, VarSetOf(0)}))
        /\ epc = IF EmitAllocs(f).panic THEN "panic" ELSE "walk"
    /\ eidx = Len(func.insts)

EmitWalk(s) ==
    /\ regs' = s
    /\ epc' = IF s.panic THEN "panic" ELSE "walk"
    /\ eidx' = eidx - 1
    /\ UNCHANGED <<func, gvnVars, memoVars, reorderVars, reassocVars, lruVars, constVars, readVars>>

EmitUnOp ==
    /\ epc = "walk" /\ eidx > 0 /\ At(func.insts, eidx - 1).k = "UnOp"
    /\ \E s \in {UnOpArm(regs, func, eidx - 1)} : EmitWalk(s)

EmitBinOp ==
    /\ epc = "walk" /\ eidx > 0 /\ At(func.insts, eidx - 1).k = "BinOp"
    /\ \E s \in {BinOpArm(regs, func, eidx - 1)} : EmitWalk(s)

EmitLoadInst ==
    /\ epc = "walk" /\ eidx > 0 /\ At(func.insts, eidx - 1).k = "Load"
    /\ \E s \in {LoadArm(regs, func, eidx - 1)} : EmitWalk(s)

\* after the loop: regs.emit_load(neg_alloc, ...) and regs.finish()
EmitFinish ==
    /\ epc = "walk" /\ eidx = 0
    /\ regs' = EmitLoad(regs, NegAlloc(func), MemorySpaceOf(0), func.neg_const)
    /\ epc' = "done"
    /\ UNCHANGED <<func, eidx, gvnVars, memoVars, reorderVars, reassocVars, lruVars, constVars, readVars>>

EmitNext ==
    \/ EmitUnOp
    \/ EmitBinOp
    \/ EmitLoadInst
    \/ EmitFinish

-----------------------------------------------------------------------------
(* ir::reassociate::reassociate, rewriting an Insts in place.  The pass is *)
(* modelled on the record s = [pool, vars, work, ok, asserts]: work is the *)
(* stack, ok is FALSE once a panic (failed unwrap, unreachable!) happened, *)
(* asserts is FALSE once a debug_assert! saw its condition fail.           *)

\* let mut uses: the backward sweep at instruction idx - 1
RECURSIVE CountUses(_, _, _)
CountUses(p, u, idx) ==
    IF idx = 0 THEN u
    ELSE LET args == At(p, idx - 1).args
             inc(v, a) == IF v[a + 1] = 255 THEN v ELSE [v EXCEPT ![a + 1] = @ + 1]
             u1 == IF Len(args) >= 1 THEN inc(u, args[1]) ELSE u
             u2 == IF Len(args) = 2 THEN inc(u1, args[2]) ELSE u1
         IN CountUses(p, IF At(u, idx - 1) > 0 THEN u2 ELSE u, idx - 1)

Uses(p) ==
    CountUses(p, [i \in 1 .. Len(p) |-> IF i = Len(p) THEN 1 ELSE 0], Len(p))

\* Inst::is_unop(UnOp::Neg)
IsNeg(inst) == IF IsUnOp(inst, "Neg") THEN Some(inst.args[1]) ELSE None

\* simplify: the match on (op, ia.is_unop(Neg), ib.is_unop(Neg)); replace
\* keeps r as the root, negate makes arg the root
SimplifyMatch(op, a, b, ia, ib, reuse_a, reuse_b) ==
    LET na == IsNeg(ia)
        nb == IsNeg(ib)
        replace(o, args) == [kind |-> "replace", op |-> o, arg |-> a, args |-> args]
        negate(o, arg, args) == [kind |-> "negate", op |-> o, arg |-> arg, args |-> args]
        both == na # None /\ nb # None
    IN CASE op = "Add" /\ na # None /\ nb = None -> replace("Sub", <<b, na[1]>>)
         [] op = "Add" /\ na = None /\ nb # None -> replace("Sub", <<a, nb[1]>>)
         [] op = "Add" /\ both /\ reuse_a -> negate("Add", a, <<na[1], nb[1]>>)
         [] op = "Add" /\ both /\ ~reuse_a /\ reuse_b -> negate("Add", b, <<na[1], nb[1]>>)
         [] op = "Sub" /\ na # None /\ nb = None /\ reuse_a -> negate("Add", a, <<na[1], b>>)
         [] op = "Sub" /\ na = None /\ nb # None -> replace("Add", <<a, nb[1]>>)
         [] op = "Sub" /\ both -> replace("Sub", <<nb[1], na[1]>>)
         [] op = "Mul" /\ na # None /\ nb = None /\ reuse_a -> negate("Mul", a, <<na[1], b>>)
         [] op = "Mul" /\ na = None /\ nb # None /\ reuse_b -> negate("Mul", b, <<a, nb[1]>>)
         [] op = "Mul" /\ both -> replace("Mul", <<na[1], nb[1]>>)
         [] op = "Min" /\ both /\ reuse_a -> negate("Max", a, <<na[1], nb[1]>>)
         [] op = "Min" /\ both /\ ~reuse_a /\ reuse_b -> negate("Max", b, <<na[1], nb[1]>>)
         [] op = "Max" /\ both /\ reuse_a -> negate("Min", a, <<na[1], nb[1]>>)
         [] op = "Max" /\ both /\ ~reuse_a /\ reuse_b -> negate("Min", b, <<na[1], nb[1]>>)
         [] OTHER -> [kind |-> "none", op |-> op, arg |-> a, args |-> <<a, b>>]

\* rebalance_add_or_sub on the subtree t = <<root, inst1, inst2>>
RebalanceAddOrSub(s, u, t) ==
    LET inst == At(s.pool, t[1])
        inst1 == At(s.pool, t[2])
        inst2 == At(s.pool, t[3])
        add_or_sub(i) == i.k = "BinOp" /\ i.op \in {"Add", "Sub"}
        sign == inst.op = "Add"
        sign1 == inst1.op = "Add"
        sign2 == inst2.op = "Add"
        a == inst.args[1]
        b == inst.args[2]
        w == inst1.args[1]
        x == inst1.args[2]
        \* a - (y - z) = a + (z - y): swap(y, z)
        y == IF ~sign2 /\ ~sign THEN inst2.args[2] ELSE inst2.args[1]
        z == IF ~sign2 /\ ~sign THEN inst2.args[1] ELSE inst2.args[2]
        new == CASE sign2 /\ sign -> <<<<a, x>>, Some(<<w, b>>), None>>
                 [] sign2 /\ ~sign -> <<<<w, a>>, Some(<<x, b>>), None>>
                 [] ~sign2 /\ sign1 -> <<<<b, z>>, None, Some(<<a, y>>)>>
                 [] OTHER -> <<<<a, b>>, Some(<<w, y>>), Some(<<x, z>>)>>
        p1 == IF new[2] # None
              THEN [s.pool EXCEPT ![t[2] + 1] = BinOpA("Add", new[2][1])] ELSE s.pool
        p2 == IF new[3] # None
              THEN [p1 EXCEPT ![t[3] + 1] = BinOpA("Add", new[3][1])] ELSE p1
        w1 == IF new[2] # None THEN Append(s.work, a) ELSE s.work
        w2 == IF new[3] # None THEN Append(w1, b) ELSE w1
    IN IF ~add_or_sub(inst1) \/ ~add_or_sub(inst2) THEN s
       ELSE IF sign1 /\ sign2 THEN s
       ELSE IF ~add_or_sub(inst) THEN s
       ELSE IF ~sign1 /\ At(u, a) > 1 THEN s
       ELSE IF ~sign2 /\ At(u, b) > 1 THEN s
       ELSE [s EXCEPT !.pool = [p2 EXCEPT ![t[1] + 1] = BinOpA("Sub", new[1])],
                      !.work = w2]

\* rebalance, on the root t[1] = inst(a = inst1(a1, b1), b = inst2(a2, b2))
Rebalance(s, t) ==
    LET inst == At(s.pool, t[1])
        a == inst.args[1]
        b == inst.args[2]
        a1 == At(s.pool, t[2]).args[1]
        b1 == At(s.pool, t[2]).args[2]
        a2 == At(s.pool, t[3]).args[1]
        b2 == At(s.pool, t[3]).args[2]
        varsa1 == At(s.vars, a1)
        varsa2 == At(s.vars, a2)
        varsb1 == At(s.vars, b1)
        varsb2 == At(s.vars, b2)
        vars2 == BitOr(varsb1, varsb2)
        \* swap a1/a2 if necessary so they're in ascending order
        lo == IF varsa1 > varsa2 THEN a2 ELSE a1
        hi == IF varsa1 > varsa2 THEN a1 ELSE a2
    IN IF varsa1 = varsa2 /\ (varsa1 < varsb1 \/ varsa2 < varsb2)
       THEN [s EXCEPT !.work = s.work \o <<a, b>>,
                      !.vars = [[s.vars EXCEPT ![a + 1] = varsa1]
                                   EXCEPT ![b + 1] = BitOr(varsb1, varsb2)],
                      !.pool = [[s.pool EXCEPT ![t[2] + 1].args = <<a1, a2>>]
                                   EXCEPT ![t[3] + 1].args = <<b1, b2>>]]
       ELSE [s EXCEPT !.asserts = s.asserts /\ varsa2 <= vars2,
                      !.work = Append(s.work, b),
                      !.vars = [[s.vars EXCEPT ![a + 1] = BitOr(vars2, varsa2)]
                                   EXCEPT ![b + 1] = vars2],
                      !.pool = [[[s.pool EXCEPT ![t[1] + 1].args = <<lo, a>>]
                                    EXCEPT ![t[2] + 1].args = <<hi, b>>]
                                    EXCEPT ![t[3] + 1].args = <<b1, b2>>]]

\* rebalance_commutative on the subtree t
RebalanceCommutative(s, u, t) ==
    LET inst == At(s.pool, t[1])
        inst1 == At(s.pool, t[2])
        inst2 == At(s.pool, t[3])
    IN IF inst.k # "BinOp" THEN [s EXCEPT !.ok = FALSE]
       ELSE IF inst.op \notin Commutative THEN s
       ELSE IF ~IsBinOp(inst1, inst.op) THEN s
       ELSE IF ~IsBinOp(inst2, inst.op)
       THEN [s EXCEPT !.pool[t[1] + 1].args = <<inst.args[2], inst.args[1]>>]
       ELSE IF At(u, inst.args[1]) < 2 /\ At(u, inst.args[2]) < 2 THEN Rebalance(s, t)
       ELSE s

\* subtree: get_disjoint_mut(indexes).unwrap() fails on overlapping indexes
Disjoint(t) == t[1] # t[2] /\ t[1] # t[3] /\ t[2] # t[3]

\* simplify(op, [r, a, b], stack, uses, insts)
Simplify(s, u, op, r, a, b) ==
    LET m == SimplifyMatch(op, a, b, At(s.pool, a), At(s.pool, b),
                           At(u, a) < 2, At(u, b) < 2)
        t == <<IF m.kind = "negate" THEN m.arg ELSE r, m.args[1], m.args[2]>>
        s1 == CASE m.kind = "none" -> s
                [] m.kind = "replace" ->
                      [s EXCEPT !.pool[r + 1] = BinOpA(m.op, m.args)]
                [] m.kind = "negate" ->
                      [s EXCEPT !.pool = [[s.pool EXCEPT ![m.arg + 1] = BinOpA(m.op, m.args)]
                                             EXCEPT ![r + 1] = UnOpI("Neg", m.arg)],
                                !.vars[m.arg + 1] = At(s.vars, r)]
    IN IF ~Disjoint(<<r, a, b>>) THEN [s EXCEPT !.ok = FALSE]
       ELSE IF ~Disjoint(t) THEN [s1 EXCEPT !.ok = FALSE]
       ELSE Bind(RebalanceAddOrSub(s1, u, t), LAMBDA s2 : RebalanceCommutative(s2, u, t))

-----------------------------------------------------------------------------
(* reassociate as a process: the Insts it rewrites is (pool, vars) *)

\* the instructions the reader can push onto a pool of n instructions
ReassocInsts(n, leaves, unops, binops) ==
    {VarI(v) : v \in leaves}
        \cup {UnOpI(op, a) : op \in unops, a \in 0 .. n - 1}
        \cup {BinOpI(op, a, b) : op \in binops, a \in 0 .. n - 1, b \in 0 .. n - 1}

\* Insts::push appends inst as it is: it is new and its own canonical form
Fresh(p, inst) ==
    /\ \A i \in DOMAIN p : p[i] # inst
    /\ Canonical(p, GvnOf(p), inst) = inst

\* every pool of n instructions that Insts::push builds from those inputs
RECURSIVE BuiltPools(_, _, _, _)
BuiltPools(n, leaves, unops, binops) ==
    IF n = 0 THEN {<<>>}
    ELSE {Append(c[1], c[2]) :
            c \in {d \in BuiltPools(n - 1, leaves, unops, binops)
                            \X ReassocInsts(n - 1, leaves, unops, binops) :
                      Fresh(d[1], d[2])}}

\* every pool of n instructions that Insts::push builds from pool p by
\* pushing those binary operations
RECURSIVE GrownPools(_, _, _)
GrownPools(p, n, binops) ==
    IF Len(p) >= n THEN {p}
    ELSE UNION {GrownPools(Append(p, inst), n, binops) :
                  inst \in {j \in ReassocInsts(Len(p), {}, {}, binops) : Fresh(p, j)}}

\* the pools reassociate is run on: short ones over x, y and every operator,
\* longer ones over x alone (with Add and Sub together only those without an
\* unused instruction), longer ones grown from x, y, x + y with Add alone, or
\* grown from x, y, x - y, y + y with Add and Sub and without an unused
\* instruction
ReassocInputs ==
    UNION {BuiltPools(n, {0, 1}, {"Neg", "Sqrt"}, BinOps) : n \in 0 .. MaxReassoc - 1}
        \cup BuiltPools(MaxReassoc, {0}, {"Neg"}, BinOps)
        \cup {p \in BuiltPools(MaxReassoc + 1, {0}, {"Neg"}, {"Add", "Sub"}) :
                 Reach(p, {Len(p) - 1}, Len(p)) = 0 .. Len(p) - 1}
        \cup BuiltPools(MaxReassoc + 1, {0}, {"Neg"}, {"Sub"})
        \cup BuiltPools(MaxReassoc + 1, {0}, {"Neg"}, {"Mul"})
        \cup BuiltPools(MaxReassoc + 1, {0}, {"Neg"}, {"Min"})
        \cup UNION {GrownPools(<<VarI(0), VarI(1), BinOpI("Add", 0, 1)>>, n, {"Add"}) :
                        n \in MaxReassoc .. MaxReassoc + 2}
        \cup {p \in GrownPools(<<VarI(0), VarI(1), BinOpI("Sub", 0, 1), BinOpI("Add", 1, 1)>>,
                             MaxReassoc + 2, {"Add", "Sub"}) :
                 Reach(p, {Len(p) - 1}, Len(p)) = 0 .. Len(p) - 1}

ReassocIdle ==
    /\ given = [pool |-> <<>>, vars |-> <<>>]
    /\ uses = <<>>
    /\ work = <<>>
    /\ ridx = 0
    /\ apc = "idle"

ReassocInit ==
    /\ sink = "insts"
    /\ pool \in ReassocInputs
    /\ vars = [i \in 1 .. Len(pool) |-> VarsOf(pool, i - 1)]
    /\ gvn = GvnOf(pool)
    /\ sgvn = <<>>
    /\ done = FALSE
    /\ given = [pool |-> pool, vars |-> vars]
    /\ uses = <<>>
    /\ work = <<>>
    /\ ridx = 0
    /\ apc = "enter"

\* let mut uses ..; let mut stack = Vec::new()
ReassocEnter ==
    /\ apc = "enter"
    /\ uses' = Uses(pool)
    /\ work' = <<>>
    /\ ridx' = 0
    /\ apc' = "for"
    /\ UNCHANGED <<gvnVars, memoVars, reorderVars, emitVars, lruVars, constVars, readVars, given>>

\* for idx in 0 .. insts.len(): stack.push(idx)
ReassocFor ==
    /\ apc = "for" /\ ridx < Len(pool)
    /\ work' = <<ridx>>
    /\ ridx' = ridx + 1
    /\ apc' = "while"
    /\ UNCHANGED <<gvnVars, memoVars, reorderVars, emitVars, lruVars, constVars, readVars, given, uses>>

ReassocExit ==
    /\ apc = "for" /\ ridx = Len(pool)
    /\ apc' = "done"
    /\ UNCHANGED <<gvnVars, memoVars, reorderVars, emitVars, lruVars, constVars, readVars, given, uses, work, ridx>>

\* VarSet as an Iterator: next() yields the lowest variable of the set
TrailingZeros(vs) == CHOOSE i \in 0 .. 2 : Bit(vs, i) = 1 /\ \A j \in 0 .. i - 1 : Bit(vs, j) = 0

\* insts.vars[a].cmp(insts.vars[b]) takes its operand by value, which makes
\* it Iterator::cmp: the two sets are compared as their sequences of
\* variables in ascending order, lexicographically.
RECURSIVE IterCmp(_, _)
IterCmp(va, vb) ==
    IF va = 0 THEN (IF vb = 0 THEN "Equal" ELSE "Less")
    ELSE IF vb = 0 THEN "Greater"
    ELSE IF TrailingZeros(va) < TrailingZeros(vb) THEN "Less"
    ELSE IF TrailingZeros(va) > TrailingZeros(vb) THEN "Greater"
    ELSE IterCmp(va - 2 ^ TrailingZeros(va), vb - 2 ^ TrailingZeros(vb))

\* while let Some(root) = stack.pop(): what the body does with root
RootCase ==
    LET inst == At(pool, work[Len(work)])
        va == At(vars, inst.args[1])
        vb == At(vars, inst.args[2])
    IN IF inst.k # "BinOp" \/ inst.args[1] = inst.args[2] THEN "skip"
       ELSE IF IterCmp(va, vb) = "Equal" THEN "simplify"
       ELSE IF IterCmp(va, vb) = "Greater" /\ inst.op \in Commutative THEN "swap"
       ELSE "skip"

\* the loop position once the body left the stack as w
AfterBody(w) == IF w = <<>> THEN "for" ELSE "while"

ReassocSkip ==
    /\ apc = "while" /\ RootCase = "skip"
    /\ work' = Pop(work)
    /\ apc' = AfterBody(work')
    /\ UNCHANGED <<gvnVars, memoVars, reorderVars, emitVars, lruVars, constVars, readVars, given, uses, ridx>>

\* Ordering::Greater if op.is_commutative() => swap(a, b)
ReassocSwap ==
    /\ apc = "while" /\ RootCase = "swap"
    /\ pool' = [pool EXCEPT ![work[Len(work)] + 1].args = <<@[2], @[1]>>]
    /\ work' = Pop(work)
    /\ apc' = AfterBody(work')
    /\ UNCHANGED <<sink, vars, gvn, sgvn, done, memoVars, reorderVars, emitVars, lruVars, constVars, readVars,
                   given, uses, ridx>>

\* Ordering::Equal => simplify(..); a failed debug_assert! panics in a debug
\* build and is not evaluated in a release build
ReassocSimplify ==
    /\ apc = "while" /\ RootCase = "simplify"
    /\ \E s \in {Simplify([pool |-> pool, vars |-> vars, work |-> Pop(work),
                           ok |-> TRUE, asserts |-> TRUE], uses,
                          At(pool, work[Len(work)]).op, work[Len(work)],
                          At(pool, work[Len(work)]).args[1],
                          At(pool, work[Len(work)]).args[2])} :
           /\ pool' = s.pool
           /\ vars' = s.vars
           /\ work' = s.work
           /\ apc' \in (IF s.ok THEN {AfterBody(s.work)} ELSE {})
                        \cup (IF s.ok /\ s.asserts THEN {} ELSE {"panic"})
    /\ UNCHANGED <<sink, gvn, sgvn, done, memoVars, reorderVars, emitVars, lruVars, constVars, readVars,
                   given, uses, ridx>>

ReassocNext ==
    \/ ReassocEnter
    \/ ReassocFor
    \/ ReassocExit
    \/ ReassocSkip
    \/ ReassocSwap
    \/ ReassocSimplify

-----------------------------------------------------------------------------
(* regalloc::Lru exercised alone: any sequence of its four operations.     *)
(* trail remembers the mark_used or mark_unused calls made last (marks, a   *)
(* mark_used of the newest register changes nothing and is not recorded)    *)
(* and the registers pop returned since, up to one round, or the last     *)
(* pop_first_in call.                                                       *)

NoTrail == [kind |-> "none", marks |-> <<>>, pops |-> <<>>]

LruIdle ==
    /\ lru = LruNew(0)
    /\ trail = NoTrail

LruInit ==
    /\ \E n \in 1 .. MaxLru : lru = LruNew(n)
    /\ trail = NoTrail

LruRegs == 0 .. Len(lru.data) - 1

LruDoMarkUsed ==
    \E r \in LruRegs :
        /\ lru' = LruMarkUsed(lru, r)
        /\ trail' = IF trail.kind = "used" /\ trail.pops = <<>>
                    THEN IF trail.marks[Len(trail.marks)] = r THEN trail
                         ELSE [trail EXCEPT !.marks = <<@[Len(@)], r>>]
                    ELSE [kind |-> "used", marks |-> <<r>>, pops |-> <<>>]
        /\ UNCHANGED <<gvnVars, memoVars, reorderVars, emitVars, reassocVars, constVars, readVars>>

LruDoMarkUnused ==
    \E r \in LruRegs :
        /\ lru' = LruMarkUnused(lru, r)
        /\ trail' = [kind |-> "unused", marks |-> <<r>>, pops |-> <<>>]
        /\ UNCHANGED <<gvnVars, memoVars, reorderVars, emitVars, reassocVars, constVars, readVars>>

LruDoPop ==
    /\ lru' = LruPop(lru).l
    /\ trail' = IF trail.kind \in {"used", "unused"} /\ Len(trail.pops) < Len(lru.data)
                THEN [trail EXCEPT !.pops = Append(@, LruPop(lru).r)]
                ELSE NoTrail
    /\ UNCHANGED <<gvnVars, memoVars, reorderVars, emitVars, reassocVars, constVars, readVars>>

\* regalloc calls pop_first_in with a non-empty set only; trail keeps the
\* call: the set, the list before it, the register returned and whether the
\* loop returned (ok) or came to unreachable!()
LruDoPopFirstIn ==
    \E free_regs \in SUBSET LruRegs \ {{}} :
        /\ lru' = LruPopFirstIn(lru, free_regs).l
        /\ trail' = [kind |-> "first_in", marks |-> <<>>, pops |-> <<>>,
                     mask |-> free_regs, was |-> lru,
                     r |-> LruPopFirstIn(lru, free_regs).r,
                     ok |-> LruPopFirstIn(lru, free_regs).ok]
        /\ UNCHANGED <<gvnVars, memoVars, reorderVars, emitVars, reassocVars, constVars, readVars>>

LruNext ==
    \/ LruDoMarkUsed
    \/ LruDoMarkUnused
    \/ LruDoPop
    \/ LruDoPopFirstIn

-----------------------------------------------------------------------------
(* ir::Const.  An f32 is its three fields; a u32 is the pair of its 16-bit *)
(* halves (high, low).                                                      *)

F32(sign, exp, frac) == [sign |-> sign, exp |-> exp, frac |-> frac]

\* f32::to_bits and f32::from_bits
ToBits(v) == <<v.sign * 32768 + v.exp * 128 + v.frac \div 65536, v.frac % 65536>>
FromBits(b) == F32(b[1] \div 32768, (b[1] \div 128) % 256, (b[1] % 128) * 65536 + b[2])

\* f32::is_finite: neither infinite nor NaN
IsFiniteOrInfinite(v) == v.exp # 255 \/ v.frac = 0
IsFinite(v) == v.exp # 255

\* Const::new: None when the assertion fails and the call aborts
ConstNew(v) == IF IsFinite(v) THEN Some(ToBits(v)) ELSE None

\* Const::value and Const::bits
ConstValue(c) == FromBits(c)
ConstBits(c) == c

\* the f32 values given to Const::new: zeros, subnormals, normals, the
\* largest finite values, the infinities and NaNs, of both signs
ConstInputs ==
    {F32(s, e, f) : s \in {0, 1}, e \in {0, 1, 126, 127, 128, 254, 255},
                    f \in {0, 1, 4194304, 4194305, 8388607}}

ConstIdle ==
    /\ cin = F32(0, 0, 0)
    /\ cres = [k |-> "idle", c |-> None]

ConstInit ==
    /\ cin \in ConstInputs
    /\ cres = [k |-> "call", c |-> None]

\* Const::new(cin): cres.c is the Const created; none when the call aborts
ConstNewCall ==
    /\ cres.k = "call"
    /\ cres' = [k |-> IF ConstNew(cin) = None THEN "abort" ELSE "const",
                c |-> ConstNew(cin)]
    /\ UNCHANGED <<cin, gvnVars, memoVars, reorderVars, emitVars, reassocVars, lruVars, readVars>>

ConstNext == ConstNewCall

-----------------------------------------------------------------------------
(* f32 arithmetic (IEEE 754 binary32, round to nearest, ties to even) on    *)
(* F32(sign, exp, frac).  Rust leaves to the build which NaN an operation   *)
(* returns and which operand min and max return when the comparison does    *)
(* not decide.  A build is the record of these choices:                     *)
(*   nan    the sign bit of the NaN an operation makes from operands that   *)
(*          are not NaN (sqrt of a negative, inf - inf, 0 * inf)            *)
(*   keep   whether an operation with a NaN operand returns that operand,   *)
(*          made quiet, rather than the NaN it makes                        *)
(*   pick   the operand such an operation returns when both are NaN, 1 or   *)
(*          2 in the order of the machine instruction                       *)
(*   swap   the commutative operations compiled with their operands         *)
(*          exchanged                                                       *)
(*   tie    the operand min and max return when the two compare equal, 1    *)
(*          for `self`, 2 for `other`                                       *)
(*   both   the operand min and max return when both are NaN                *)

Builds ==
    [nan : {0, 1}, keep : BOOLEAN, pick : {1, 2}, swap : SUBSET {"Add", "Mul"},
     tie : {1, 2}, both : {1, 2}]

IsNaN(v) == v.exp = 255 /\ v.frac # 0
IsInfinite(v) == v.exp = 255 /\ v.frac = 0
IsZero(v) == v.exp = 0 /\ v.frac = 0

QNaN(sign) == F32(sign, 255, 4194304)

\* a NaN with its quiet bit set
Quiet(v) == F32(v.sign, 255, IF v.frac >= 4194304 THEN v.frac ELSE v.frac + 4194304)

\* the NaN operation op returns for operands a and b, one of them a NaN (a
\* unary operation has b = a)
ResultNaN(op, a, b, build) ==
    IF build.keep /\ IsNaN(a) /\ (~IsNaN(b) \/ (build.pick = 1) # (op \in build.swap))
    THEN Quiet(a)
    ELSE IF build.keep /\ IsNaN(b) THEN Quiet(b)
    ELSE QNaN(build.nan)

FInf(sign) == F32(sign, 255, 0)
FZero(sign) == F32(sign, 0, 0)
FOne == F32(0, 127, 0)
FTwo == F32(0, 128, 0)

\* f32::is_sign_positive
IsSignPositive(v) == v.sign = 0

\* a finite v is (-1)^sign * Sig(v) * 2^Exp2(v)
Sig(v) == IF v.exp = 0 THEN v.frac ELSE 8388608 + v.frac
Exp2(v) == IF v.exp = 0 THEN -149 ELSE v.exp - 150

\* the number of bits of n, for 0 <= n < 2^30
RECURSIVE BitLen(_)
BitLen(n) == IF n = 0 THEN 0 ELSE 1 + BitLen(n \div 2)

\* the f32 of value sig * 2^q, for sig <= 2^24 and q >= -149, where sig >=
\* 2^23 unless q = -149: past the largest finite value it is an infinity
PackF32(sign, sig, q) ==
    IF q > 104 \/ (q + 149) * 8388608 + sig >= 255 * 8388608 THEN FInf(sign)
    ELSE F32(sign, ((q + 149) * 8388608 + sig) \div 8388608, sig % 8388608)

\* the f32 nearest to (m + t) * 2^e, where 0 < m < 2^30, and t = 0 if sticky
\* = 0, 0 < t < 1 if sticky = 1 (m then has more than 25 bits); ties to even
RoundF32(sign, m, e, sticky) ==
    LET q == IF e + BitLen(m) - 24 > -149 THEN e + BitLen(m) - 24 ELSE -149
        s == q - e
    IN IF s <= 0 THEN PackF32(sign, m * 2 ^ (-s), q)
       ELSE IF s > 30 THEN FZero(sign)
       ELSE LET keep == m \div 2 ^ s
                rest == m % 2 ^ s
                half == 2 ^ (s - 1)
            IN IF rest > half \/ (rest = half /\ (sticky = 1 \/ keep % 2 = 1))
               THEN PackF32(sign, keep + 1, q)
               ELSE PackF32(sign, keep, q)

\* f32::from(n) for a u16
FltOfU16(n) == IF n = 0 THEN FZero(0) ELSE RoundF32(0, n, 0, 0)

\* -a: the sign bit flipped, of a NaN too
FNeg(a) == [a EXCEPT !.sign = 1 - a.sign]

\* the sum of two finite non-zero values, big the one of the larger exponent
AddFinite(big, small) ==
    LET d == Exp2(big) - Exp2(small)
    IN IF d <= 5
       THEN LET x == Sig(big) * 2 ^ d
                y == Sig(small)
            IN IF big.sign = small.sign THEN RoundF32(big.sign, x + y, Exp2(small), 0)
               ELSE IF x = y THEN FZero(0)
               ELSE IF x > y THEN RoundF32(big.sign, x - y, Exp2(small), 0)
               ELSE RoundF32(small.sign, y - x, Exp2(small), 0)
       ELSE LET x == Sig(big) * 32
                y == IF d - 5 > 24 THEN 0 ELSE Sig(small) \div 2 ^ (d - 5)
                lost == d - 5 > 24 \/ Sig(small) % 2 ^ (d - 5) # 0
            IN IF big.sign = small.sign
               THEN RoundF32(big.sign, x + y, Exp2(big) - 5, IF lost THEN 1 ELSE 0)
               ELSE IF lost THEN RoundF32(big.sign, x - y - 1, Exp2(big) - 5, 1)
               ELSE RoundF32(big.sign, x - y, Exp2(big) - 5, 0)

\* the sum of a and b, neither a NaN
AddValues(a, b, nan) ==
    IF IsInfinite(a) THEN (IF IsInfinite(b) /\ a.sign # b.sign THEN QNaN(nan) ELSE a)
    ELSE IF IsInfinite(b) THEN b
    ELSE IF IsZero(a) /\ IsZero(b) THEN FZero(IF a.sign = b.sign THEN a.sign ELSE 0)
    ELSE IF IsZero(a) THEN b
    ELSE IF IsZero(b) THEN a
    ELSE IF Exp2(a) >= Exp2(b) THEN AddFinite(a, b)
    ELSE AddFinite(b, a)

\* a + b
FAdd(a, b, build) ==
    IF IsNaN(a) \/ IsNaN(b) THEN ResultNaN("Add", a, b, build)
    ELSE AddValues(a, b, build.nan)

\* a - b
FSub(a, b, build) ==
    IF IsNaN(a) \/ IsNaN(b) THEN ResultNaN("Sub", a, b, build)
    ELSE AddValues(a, FNeg(b), build.nan)

\* x * y = r[1] * 2^24 + r[2] for x, y < 2^24
MulWide(x, y) ==
    LET mid == (x \div 4096) * (y % 4096) + (x % 4096) * (y \div 4096)
        low == (mid % 4096) * 4096 + (x % 4096) * (y % 4096)
    IN <<(x \div 4096) * (y \div 4096) + mid \div 4096 + low \div 16777216, low % 16777216>>

\* the f32 nearest to (w[1] * 2^24 + w[2]) * 2^e
RoundWide(sign, w, e) ==
    IF w[1] = 0 THEN (IF w[2] = 0 THEN FZero(sign) ELSE RoundF32(sign, w[2], e, 0))
    ELSE LET k == IF BitLen(w[1]) > 5 THEN BitLen(w[1]) - 5 ELSE 0
         IN RoundF32(sign, w[1] * 2 ^ (24 - k) + w[2] \div 2 ^ k, e + k,
                     IF w[2] % 2 ^ k # 0 THEN 1 ELSE 0)

\* a * b
FMul(a, b, build) ==
    LET sign == IF a.sign = b.sign THEN 0 ELSE 1
    IN IF IsNaN(a) \/ IsNaN(b) THEN ResultNaN("Mul", a, b, build)
       ELSE IF IsInfinite(a) \/ IsInfinite(b)
       THEN (IF IsZero(a) \/ IsZero(b) THEN QNaN(build.nan) ELSE FInf(sign))
       ELSE IF IsZero(a) \/ IsZero(b) THEN FZero(sign)
       ELSE RoundWide(sign, MulWide(Sig(a), Sig(b)), Exp2(a) + Exp2(b))

\* a finite non-zero v with its significand shifted up to 24 bits: <<m, e>>
\* with v = m * 2^e in magnitude
Normal(v) == <<Sig(v) * 2 ^ (24 - BitLen(Sig(v))), Exp2(v) - (24 - BitLen(Sig(v)))>>

\* n more bits of the quotient of r / d, r < 2 * d: <<quotient, remainder>>
RECURSIVE DivBits(_, _, _, _)
DivBits(r, d, n, q) ==
    IF n = 0 THEN <<q, r>>
    ELSE IF r >= d THEN DivBits(2 * (r - d), d, n - 1, 2 * q + 1)
    ELSE DivBits(2 * r, d, n - 1, 2 * q)

\* a / b
FDiv(a, b, build) ==
    LET sign == IF a.sign = b.sign THEN 0 ELSE 1
    IN IF IsNaN(a) \/ IsNaN(b) THEN ResultNaN("Div", a, b, build)
       ELSE IF IsInfinite(a) THEN (IF IsInfinite(b) THEN QNaN(build.nan) ELSE FInf(sign))
       ELSE IF IsInfinite(b) THEN FZero(sign)
       ELSE IF IsZero(b) THEN (IF IsZero(a) THEN QNaN(build.nan) ELSE FInf(sign))
       ELSE IF IsZero(a) THEN FZero(sign)
       ELSE LET x == Normal(a)
                y == Normal(b)
                less == x[1] < y[1]
                qr == DivBits(IF less THEN 2 * x[1] ELSE x[1], y[1], 26, 0)
            IN RoundF32(sign, qr[1], x[2] - y[2] - (IF less THEN 26 ELSE 25),
                        IF qr[2] # 0 THEN 1 ELSE 0)

\* the square root of m * 4^14 bit by bit, from bit pair j down: <<root,
\* remainder>>
RECURSIVE SqrtBits(_, _, _, _)
SqrtBits(m, j, root, rem) ==
    IF j < 0 THEN <<root, rem>>
    ELSE LET r == rem * 4 + (IF j >= 14 THEN (m \div 4 ^ (j - 14)) % 4 ELSE 0)
         IN IF r >= root * 4 + 1
            THEN SqrtBits(m, j - 1, root * 2 + 1, r - (root * 4 + 1))
            ELSE SqrtBits(m, j - 1, root * 2, r)

\* a.sqrt()
FSqrt(a, build) ==
    IF IsNaN(a) THEN ResultNaN("Sqrt", a, a, build)
    ELSE IF IsZero(a) THEN a
    ELSE IF a.sign = 1 THEN QNaN(build.nan)
    ELSE IF IsInfinite(a) THEN a
    ELSE LET x == Normal(a)
             odd == x[2] % 2 = 1
             sr == SqrtBits(IF odd THEN 2 * x[1] ELSE x[1], 26, 0, 0)
         IN RoundF32(0, sr[1], (IF odd THEN x[2] - 1 ELSE x[2]) \div 2 - 14,
                     IF sr[2] # 0 THEN 1 ELSE 0)

\* a < b for a and b not NaN
FLess(a, b) ==
    (IF a.sign = 1 THEN -(a.exp * 8388608 + a.frac) ELSE a.exp * 8388608 + a.frac)
        < (IF b.sign = 1 THEN -(b.exp * 8388608 + b.frac) ELSE b.exp * 8388608 + b.frac)

\* a.min(b) and a.max(b): a NaN operand is ignored when the other is a number
FMin(a, b, build) ==
    IF IsNaN(a) /\ IsNaN(b) THEN (IF build.both = 1 THEN a ELSE b)
    ELSE IF IsNaN(a) THEN b
    ELSE IF IsNaN(b) THEN a
    ELSE IF FLess(a, b) THEN a
    ELSE IF FLess(b, a) THEN b
    ELSE IF build.tie = 1 THEN a ELSE b

FMax(a, b, build) ==
    IF IsNaN(a) /\ IsNaN(b) THEN (IF build.both = 1 THEN a ELSE b)
    ELSE IF IsNaN(a) THEN b
    ELSE IF IsNaN(b) THEN a
    ELSE IF FLess(a, b) THEN b
    ELSE IF FLess(b, a) THEN a
    ELSE IF build.tie = 1 THEN a ELSE b

-----------------------------------------------------------------------------
(* str::parse::<f32>.  A natural number of any size is the sequence of its *)
(* digits in base 2^15, lowest first, <<>> for 0.                          *)

\* the i-th character of a string, as a string; "" past its end
Chr(s, i) == IF 1 <= i /\ i <= Len(s) THEN SubSeq(s, i, i) ELSE ""

IsDigit(c) == c \in {"0", "1", "2", "3", "4", "5", "6", "7", "8", "9"}
DigitOf(c) ==
    CASE c = "0" -> 0 [] c = "1" -> 1 [] c = "2" -> 2 [] c = "3" -> 3 [] c = "4" -> 4
      [] c = "5" -> 5 [] c = "6" -> 6 [] c = "7" -> 7 [] c = "8" -> 8 [] c = "9" -> 9

\* n * k + c for k <= 2^15 and c < 2^15
RECURSIVE BigMulAdd(_, _, _)
BigMulAdd(n, k, c) ==
    IF n = <<>> THEN (IF c = 0 THEN <<>> ELSE <<c>>)
    ELSE <<(n[1] * k + c) % 32768>> \o BigMulAdd(Tail(n), k, (n[1] * k + c) \div 32768)

\* n * 2^j
BigShl(n, j) ==
    IF n = <<>> THEN <<>>
    ELSE [i \in 1 .. j \div 15 |-> 0] \o BigMulAdd(n, 2 ^ (j % 15), 0)

\* n * 10^k
RECURSIVE BigTimesPow10(_, _)
BigTimesPow10(n, k) ==
    IF k >= 4 THEN BigTimesPow10(BigMulAdd(n, 10000, 0), k - 4)
    ELSE BigMulAdd(n, 10 ^ k, 0)

\* the sign of a - b over the lowest i digits, both of the same length
RECURSIVE BigCmpFrom(_, _, _)
BigCmpFrom(a, b, i) ==
    IF i = 0 THEN 0
    ELSE IF a[i] # b[i] THEN (IF a[i] < b[i] THEN -1 ELSE 1)
    ELSE BigCmpFrom(a, b, i - 1)

\* the sign of a - b
BigCmp(a, b) ==
    IF Len(a) # Len(b) THEN (IF Len(a) < Len(b) THEN -1 ELSE 1)
    ELSE BigCmpFrom(a, b, Len(a))

\* n without its leading zeros
RECURSIVE BigTrim(_)
BigTrim(n) ==
    IF n # <<>> /\ n[Len(n)] = 0 THEN BigTrim(SubSeq(n, 1, Len(n) - 1)) ELSE n

\* the digits of a - b - borrow, for a >= b + borrow
RECURSIVE BigSubDigits(_, _, _)
BigSubDigits(a, b, borrow) ==
    IF a = <<>> THEN <<>>
    ELSE LET d == a[1] - (IF b = <<>> THEN 0 ELSE b[1]) - borrow
         IN <<d % 32768>>
                \o BigSubDigits(Tail(a), IF b = <<>> THEN <<>> ELSE Tail(b),
                                IF d < 0 THEN 1 ELSE 0)

BigSub(a, b) == BigTrim(BigSubDigits(a, b, 0))

BigBitLen(n) == IF n = <<>> THEN 0 ELSE 15 * (Len(n) - 1) + BitLen(n[Len(n)])

\* the number whose decimal digits are the characters of s from the i-th on,
\* after those of acc; four digits at a time while there are four
RECURSIVE BigOfDecimal(_, _, _)
BigOfDecimal(s, i, acc) ==
    IF i > Len(s) THEN acc
    ELSE IF i + 3 <= Len(s)
    THEN BigOfDecimal(s, i + 4,
                      BigMulAdd(acc, 10000,
                                DigitOf(Chr(s, i)) * 1000 + DigitOf(Chr(s, i + 1)) * 100
                                    + DigitOf(Chr(s, i + 2)) * 10 + DigitOf(Chr(s, i + 3))))
    ELSE BigOfDecimal(s, i + 1, BigMulAdd(acc, 10, DigitOf(Chr(s, i))))

\* the bits 2^i and below of the quotient r / d, for r < d * 2^(i+1): <<q +
\* quotient, remainder>>
RECURSIVE BigDivBits(_, _, _, _)
BigDivBits(r, d, i, q) ==
    IF i < 0 THEN <<q, r>>
    ELSE IF BigCmp(r, BigShl(d, i)) >= 0
    THEN BigDivBits(BigSub(r, BigShl(d, i)), d, i - 1, q + 2 ^ i)
    ELSE BigDivBits(r, d, i - 1, q)

\* the f32 nearest to n / m, for n, m > 0; ties to even
RatioF32(sign, n, m) ==
    LET k0 == BigBitLen(n) - BigBitLen(m) - 24
        k1 == IF k0 > -149 THEN k0 ELSE -149
        num == IF k1 < 0 THEN BigShl(n, -k1) ELSE n
        den1 == IF k1 > 0 THEN BigShl(m, k1) ELSE m
        over == BigCmp(num, BigShl(den1, 24)) >= 0
        den == IF over THEN BigShl(den1, 1) ELSE den1
        qr == BigDivBits(num, den, 23, 0)
        twice == BigCmp(BigShl(qr[2], 1), den)
    IN IF (IF over THEN k1 + 1 ELSE k1) > 104 THEN FInf(sign)
       ELSE PackF32(sign,
                    IF twice > 0 \/ (twice = 0 /\ qr[1] % 2 = 1) THEN qr[1] + 1 ELSE qr[1],
                    IF over THEN k1 + 1 ELSE k1)

\* the number of decimal digits of s from the i-th character on, i <= Len(s) + 1
DigitRun(s, i) ==
    CHOOSE n \in 0 .. Len(s) + 1 - i :
        (\A j \in i .. i + n - 1 : IsDigit(Chr(s, j))) /\ ~IsDigit(Chr(s, i + n))

\* the number of leading "0" of s
ZeroRun(s) ==
    CHOOSE n \in 0 .. Len(s) :
        (\A j \in 1 .. n : Chr(s, j) = "0") /\ Chr(s, n + 1) # "0"

\* the value of the exponent digits s, no larger than 100000
RECURSIVE ExponentOf(_, _, _)
ExponentOf(s, i, acc) ==
    IF i > Len(s) THEN acc
    ELSE IF acc >= 100000 THEN 100000
    ELSE ExponentOf(s, i + 1, acc * 10 + DigitOf(Chr(s, i)))

\* ASCII lower case of the letters of inf, infinity and nan
LowerChar(c) ==
    CASE c = "I" -> "i" [] c = "N" -> "n" [] c = "F" -> "f" [] c = "T" -> "t"
      [] c = "Y" -> "y" [] c = "A" -> "a" [] OTHER -> c

RECURSIVE LowerCase(_)
LowerCase(s) == IF s = "" THEN "" ELSE LowerChar(Chr(s, 1)) \o LowerCase(Tail(s))

\* the f32 of the decimal digits * 10^e, the digits without leading zeros
DecimalF32(sign, digits, e) ==
    IF digits = "" THEN FZero(sign)
    ELSE IF Len(digits) + e > 39 THEN FInf(sign)
    ELSE IF Len(digits) + e < -45 THEN FZero(sign)
    ELSE IF e >= 0 THEN RatioF32(sign, BigTimesPow10(BigOfDecimal(digits, 1, <<>>), e), <<1>>)
    ELSE RatioF32(sign, BigOfDecimal(digits, 1, <<>>), BigTimesPow10(<<1>>, -e))

\* Number ::= (Digit+ | Digit+ '.' Digit* | Digit* '.' Digit+) Exp?, with
\* Exp ::= ('e' | 'E') Sign? Digit+: None when s is not one
ParseNumber(sign, s) ==
    LET n1 == DigitRun(s, 1)
        dot == Chr(s, n1 + 1) = "."
        n2 == IF dot THEN DigitRun(s, n1 + 2) ELSE 0
        mant == SubSeq(s, 1, n1) \o (IF dot THEN SubSeq(s, n1 + 2, n1 + 1 + n2) ELSE "")
        at == n1 + n2 + (IF dot THEN 2 ELSE 1)
        hasExp == Chr(s, at) \in {"e", "E"}
        esign == hasExp /\ Chr(s, at + 1) \in {"+", "-"}
        from == at + (IF esign THEN 2 ELSE 1)
        n3 == IF hasExp THEN DigitRun(s, from) ELSE 0
        e == IF ~hasExp THEN 0
             ELSE IF Chr(s, at + 1) = "-" THEN -ExponentOf(SubSeq(s, from, from + n3 - 1), 1, 0)
             ELSE ExponentOf(SubSeq(s, from, from + n3 - 1), 1, 0)
    IN IF n1 + n2 = 0 THEN None
       ELSE IF hasExp /\ n3 = 0 THEN None
       ELSE IF (IF hasExp THEN from + n3 ELSE at) # Len(s) + 1 THEN None
       ELSE Some(DecimalF32(sign, SubSeq(mant, ZeroRun(mant) + 1, Len(mant)), e - n2))

\* str::parse::<f32>: Some(v), or None for Err(ParseFloatError)
ParseF32(token) ==
    LET signed == token # "" /\ Chr(token, 1) \in {"+", "-"}
        sign == IF signed /\ Chr(token, 1) = "-" THEN 1 ELSE 0
        body == IF signed THEN Tail(token) ELSE token
    IN IF Len(body) <= 8 /\ LowerCase(body) \in {"inf", "infinity"} THEN Some(FInf(sign))
       ELSE IF Len(body) <= 8 /\ LowerCase(body) = "nan" THEN Some(QNaN(sign))
       ELSE ParseNumber(sign, body)

-----------------------------------------------------------------------------
(* ir::io::read.  The input is a sequence of lines, a line the sequence of *)
(* its whitespace-separated tokens.  rd = [s, names, last] is the state of *)
(* the loop: the sink, the names defined so far and the last handle.       *)

\* token.starts_with('#')
StartsWithHash(token) == Chr(token, 1) = "#"

\* line.split_ascii_whitespace().take_while(|token| !token.starts_with('#'))
TakeTokens(line) ==
    SubSeq(line, 1,
           IF \E i \in DOMAIN line : StartsWithHash(line[i])
           THEN (CHOOSE i \in DOMAIN line :
                    /\ StartsWithHash(line[i])
                    /\ \A j \in 1 .. i - 1 : ~StartsWithHash(line[j])) - 1
           ELSE Len(line))

\* the u32 of a Const as one number: the i32 of the same bits
BitsU32(c) ==
    IF c[1] >= 32768 THEN (c[1] - 65536) * 65536 + c[2] ELSE c[1] * 65536 + c[2]

\* the Const of that number
ConstOfU32(bits) ==
    IF bits < 0 THEN <<65536 + bits \div 65536, bits % 65536>>
    ELSE <<bits \div 65536, bits % 65536>>

VarNames == [x \in {"var-x", "var-y", "var-z"} |->
                CASE x = "var-x" -> 0 [] x = "var-y" -> 1 [] x = "var-z" -> 2]
UnOpNames == [x \in {"neg", "square", "sqrt"} |->
                CASE x = "neg" -> "Neg" [] x = "square" -> "Square" [] x = "sqrt" -> "Sqrt"]
BinOpNames == [x \in {"add", "sub", "mul", "min", "max"} |->
                CASE x = "add" -> "Add" [] x = "sub" -> "Sub" [] x = "mul" -> "Mul"
                  [] x = "min" -> "Min" [] x = "max" -> "Max"]

ReadErr(kind, name) == [k |-> "err", err |-> kind, name |-> name]
ReadOk(v) == [k |-> "ok", v |-> v]

\* Tokens::next for the token at position i
TokensNext(tokens, i) ==
    IF i <= Len(tokens) THEN ReadOk(tokens[i]) ELSE ReadErr("MissingToken", "")

\* Tokens::arg without the lookup failing
TokensArgAnyName(names, tokens, i) ==
    IF i > Len(tokens) THEN ReadErr("MissingToken", "")
    ELSE IF tokens[i] \in DOMAIN names THEN ReadOk(names[tokens[i]])
    ELSE ReadOk(Pos(0))

\* Tokens::arg for the token at position i
TokensArg(names, tokens, i) ==
    IF i > Len(tokens) THEN ReadErr("MissingToken", "")
    ELSE IF tokens[i] \in DOMAIN names THEN ReadOk(names[tokens[i]])
    ELSE ReadErr("UndefinedName", tokens[i])

\* the match on the operation token: the sink call of the line and the
\* number of tokens consumed, an error, or the abort of Const::new
ReadOp(names, tokens) ==
    Bind(tokens[2], LAMBDA op :
    IF op = "const"
    THEN IF TokensNext(tokens, 3).k = "err" THEN TokensNext(tokens, 3)
         ELSE IF ParseF32(tokens[3]) = None THEN ReadErr("InvalidConst", "")
         ELSE IF ConstNew(ParseF32(tokens[3])[1]) = None THEN [k |-> "abort"]
         ELSE [k |-> "call", used |-> 3,
               call |-> Call("const", "", <<>>,
                             BitsU32(ConstNew(ParseF32(tokens[3])[1])[1]), 0)]
    ELSE IF op \in DOMAIN VarNames
    THEN [k |-> "call", used |-> 2, call |-> Call("var", "", <<>>, VarNames[op], 0)]
    ELSE IF op \in DOMAIN UnOpNames
    THEN Bind(TokensArg(names, tokens, 3), LAMBDA a :
             IF a.k = "err" THEN a
             ELSE [k |-> "call", used |-> 3,
                   call |-> Call("unop", UnOpNames[op], <<a.v>>, 0, 0)])
    ELSE IF op \in DOMAIN BinOpNames
    THEN Bind(TokensArg(names, tokens, 3), LAMBDA a :
             IF a.k = "err" THEN a
             ELSE Bind(TokensArg(names, tokens, 4), LAMBDA b :
                      IF b.k = "err" THEN b
                      ELSE [k |-> "call", used |-> 4,
                            call |-> Call("binop", BinOpNames[op], <<a.v, b.v>>, 0, 0)]))
    ELSE ReadErr("UnknownOp", op))

\* names.entry(out) that overwrites an occupied entry
NamesEntryOverwrite(names, out, idx) == ReadOk((out :> idx) @@ names)

\* match names.entry(out): insert when vacant, RedefinedName when occupied
NamesEntry(names, out, idx) ==
    IF out \in DOMAIN names THEN ReadErr("RedefinedName", out)
    ELSE ReadOk((out :> idx) @@ names)

\* the body of the loop for one line: k = "cont" and the next rd, or the
\* error returned, or "abort"
ReadLoopBody(rd, line) ==
    Bind(TakeTokens(line), LAMBDA tokens :
    IF Len(tokens) = 0 THEN [k |-> "cont", rd |-> rd]
    ELSE IF TokensNext(tokens, 2).k = "err" THEN TokensNext(tokens, 2)
    ELSE Bind(ReadOp(rd.names, tokens), LAMBDA o :
         IF o.k # "call" THEN o
         ELSE Bind(Apply(rd.s, o.call), LAMBDA p :
              IF Len(tokens) > o.used THEN ReadErr("ExtraToken", tokens[o.used + 1])
              ELSE Bind(NamesEntry(rd.names, tokens[1], p.r), LAMBDA e :
                   IF e.k = "err" THEN e
                   ELSE [k |-> "cont",
                         rd |-> [s |-> p.s, names |-> e.v, last |-> Some(p.r)]]))))

\* sink.finish(last): root is the index the pool is finished with
ReadSinkFinish(s, h) ==
    IF s.sink = "insts" THEN [s |-> s, r |-> h.idx] ELSE SimplifyFinish(s, h)

\* the names a line may define or use, and the lines of the inputs: blank
\* and comment lines, lines with a token missing, a token too many or an
\* unknown operation, constants that do not parse or are not finite
ReadNames == {"a", "b"}

ReadShapes ==
    {<<>>, <<"#", "a">>, <<"a">>, <<"a", "neg">>, <<"a", "bogus">>,
     <<"a", "var-x", "b">>, <<"a", "var-x", "#b", "b">>,
     <<"b", "const", "-2.5">>, <<"a", "const", "q">>, <<"a", "const", "1e39">>,
     <<"a", "const">>}
        \cup {<<n, "var-x">> : n \in ReadNames}
        \cup {<<n, "neg", m>> : n \in ReadNames, m \in ReadNames}
        \cup {<<n, "sub", m[1], m[2]>> :
                 n \in ReadNames, m \in {<<"a", "a">>, <<"a", "b">>, <<"b", "a">>}}

\* well-formed programs of MaxReadLines lines, line i defining name i
ProgNames == <<"a", "b", "c", "d", "e">>

ProgLines(i) ==
    {<<ProgNames[i], v>> : v \in {"var-x", "var-y"}}
        \cup {<<ProgNames[i], op, ProgNames[j]>> :
                 op \in {"neg", "square"}, j \in 1 .. i - 1}
        \cup {<<ProgNames[i], op, ProgNames[j], ProgNames[k]>> :
                 op \in {"add", "sub", "mul"}, j \in 1 .. i - 1, k \in 1 .. i - 1}

RECURSIVE Progs(_)
Progs(n) ==
    IF n = 0 THEN {<<>>}
    ELSE {Append(p, l) : p \in Progs(n - 1), l \in ProgLines(n)}

\* well-formed programs of MaxFloatLines lines over constants, sqrt, min and
\* max
FloatLines(i) ==
    {<<ProgNames[i], v>> : v \in {"var-x", "var-y"}}
        \cup {<<ProgNames[i], "const", c>> : c \in {"0.1", "-0", "-4e0"}}
        \cup {<<ProgNames[i], "sqrt", ProgNames[j]>> : j \in 1 .. i - 1}
        \cup {<<ProgNames[i], op, ProgNames[j], ProgNames[k]>> :
                 op \in {"min", "max"}, j \in 1 .. i - 1, k \in 1 .. i - 1}

RECURSIVE FloatProgs(_)
FloatProgs(n) ==
    IF n = 0 THEN {<<>>}
    ELSE {Append(p, l) : p \in FloatProgs(n - 1), l \in FloatLines(n)}

ReadTexts ==
    UNION {[1 .. n -> ReadShapes] : n \in 0 .. MaxReadShort}
        \cup Progs(MaxReadLines) \cup FloatProgs(MaxFloatLines)

ReadReading == [k |-> "reading", err |-> "", name |-> "", line |-> 0,
                fin |-> None, root |-> None]

ReadIdle ==
    /\ text = <<>>
    /\ rpos = 0
    /\ rnames = <<>>
    /\ rlast = None
    /\ rres = ReadReading
    /\ rfail = FALSE

\* read(f, sink) with a new sink of either kind; f delivers the lines of
\* text and then ends, or fails (a read error, bytes that are not UTF-8)
ReadInit ==
    /\ GvnInit
    /\ text \in ReadTexts
    /\ rpos = 1
    /\ rnames = <<>>
    /\ rlast = None
    /\ rres = ReadReading
    /\ rfail \in BOOLEAN

\* one iteration of `for line in f.lines()`: `let line = line?` returns the
\* reader's error, otherwise the body runs on the line
ReadLine ==
    /\ rres.k = "reading"
    /\ rpos <= Len(text) \/ rfail
    /\ IF rpos > Len(text)
       THEN /\ rres' = [ReadReading EXCEPT !.k = "err", !.err = "IO", !.line = rpos]
            /\ done' = TRUE
            /\ UNCHANGED <<pool, vars, gvn, sgvn, rnames, rlast, rpos>>
       ELSE \E b \in {ReadLoopBody([s |-> Sink, names |-> rnames, last |-> rlast], text[rpos])} :
               IF b.k = "cont"
               THEN /\ pool' = b.rd.s.pool
                    /\ vars' = b.rd.s.vars
                    /\ gvn' = b.rd.s.gvn
                    /\ sgvn' = b.rd.s.sgvn
                    /\ rnames' = b.rd.names
                    /\ rlast' = b.rd.last
                    /\ rpos' = rpos + 1
                    /\ UNCHANGED <<rres, done>>
               ELSE /\ rres' = [ReadReading EXCEPT !.k = b.k,
                                                   !.err = IF b.k = "err" THEN b.err ELSE "",
                                                   !.name = IF b.k = "err" THEN b.name ELSE "",
                                                   !.line = rpos]
                    /\ done' = TRUE
                    /\ UNCHANGED <<pool, vars, gvn, sgvn, rnames, rlast, rpos>>
    /\ UNCHANGED <<sink, text, rfail, memoVars, reorderVars, emitVars, reassocVars, lruVars, constVars>>

\* Ok(sink.finish(last.ok_or(Error::Empty)?)), once f.lines() has ended
ReadFinish ==
    /\ rres.k = "reading"
    /\ rpos > Len(text)
    /\ ~rfail
    /\ IF rlast = None
       THEN /\ rres' = [ReadReading EXCEPT !.k = "err", !.err = "Empty", !.line = rpos]
            /\ UNCHANGED <<pool, vars, gvn, sgvn>>
       ELSE \E f \in {ReadSinkFinish(Sink, rlast[1])} :
               /\ pool' = f.s.pool
               /\ vars' = f.s.vars
               /\ gvn' = f.s.gvn
               /\ sgvn' = f.s.sgvn
               /\ rres' = [ReadReading EXCEPT !.k = "ok", !.line = rpos,
                                              !.fin = rlast, !.root = Some(f.r)]
    /\ done' = TRUE
    /\ UNCHANGED <<sink, text, rfail, rpos, rnames, rlast, memoVars, reorderVars, emitVars, reassocVars, lruVars, constVars>>

ReadNext == ReadLine \/ ReadFinish

-----------------------------------------------------------------------------
(* ir::interp::interp, in a build of Builds.                               *)

\* Const::value of the constant an instruction holds
FltOfBits(bits) == ConstValue(ConstOfU32(bits))

\* scale = 2.0 / f32::from(size - 1), with size = InterpSize
InterpScale(build) == FDiv(FTwo, FltOfU16(InterpSize - 1), build)

\* vars[i] = f32::from(n) * scale - 1.0
InterpCoord(n, build) ==
    FSub(FMul(FltOfU16(n), InterpScale(build), build), FOne, build)

\* the sample points (vars[0], vars[1]) of an image of InterpSize pixels
InterpPoints(build) ==
    {<<InterpCoord(x, build), InterpCoord(y, build)>> :
        x \in 0 .. InterpSize - 1, y \in 0 .. InterpSize - 1}

\* regs after the loop over the first n instructions at one sample point; a
\* Load is unimplemented!()
RECURSIVE InterpRegs(_, _, _, _)
InterpRegs(insts, n, point, build) ==
    IF n = 0 THEN <<>>
    ELSE Bind(InterpRegs(insts, n - 1, point, build), LAMBDA rg :
         Bind(insts[n], LAMBDA inst :
             Append(rg,
                 CASE inst.k = "Const" -> FltOfBits(inst.val)
                   [] inst.k = "Var" -> point[inst.val + 1]
                   [] inst.k = "UnOp" /\ inst.op = "Neg" -> FNeg(At(rg, inst.args[1]))
                   [] inst.k = "UnOp" /\ inst.op = "Square" ->
                         FMul(At(rg, inst.args[1]), At(rg, inst.args[1]), build)
                   [] inst.k = "UnOp" /\ inst.op = "Sqrt" ->
                         FSqrt(At(rg, inst.args[1]), build)
                   [] inst.k = "BinOp" /\ inst.op = "Add" ->
                         FAdd(At(rg, inst.args[1]), At(rg, inst.args[2]), build)
                   [] inst.k = "BinOp" /\ inst.op = "Sub" ->
                         FSub(At(rg, inst.args[1]), At(rg, inst.args[2]), build)
                   [] inst.k = "BinOp" /\ inst.op = "Mul" ->
                         FMul(At(rg, inst.args[1]), At(rg, inst.args[2]), build)
                   [] inst.k = "BinOp" /\ inst.op = "Min" ->
                         FMin(At(rg, inst.args[1]), At(rg, inst.args[2]), build)
                   [] inst.k = "BinOp" /\ inst.op = "Max" ->
                         FMax(At(rg, inst.args[1]), At(rg, inst.args[2]), build))))

\* whether interp sets the pixel of the sample point
Interp(insts, point, build) ==
    IsSignPositive(InterpRegs(insts, Len(insts), point, build)[Len(insts)])

-----------------------------------------------------------------------------
(* Specifications *)

Init == GvnInit /\ MemoIdle /\ ReorderIdle /\ EmitIdle /\ ReassocIdle /\ LruIdle /\ ConstIdle /\ ReadIdle

Spec == Init /\ [][GvnNext]_allVars

MemoInit == MemoIdle /\ GvnIdle /\ ReorderIdle /\ EmitIdle /\ ReassocIdle /\ LruIdle /\ ConstIdle /\ ReadIdle

SpecMemo == MemoInit /\ [][MemoNext]_allVars

\* reorder is a sequential loop: it always takes its next step
ReorderStart == ReorderInit /\ MemoIdle /\ EmitIdle /\ ReassocIdle /\ LruIdle /\ ConstIdle /\ ReadIdle

SpecReorder == ReorderStart /\ [][ReorderNext]_allVars /\ WF_allVars(ReorderNext)

EmitStart == EmitInit /\ GvnIdle /\ MemoIdle /\ ReorderIdle /\ ReassocIdle /\ LruIdle /\ ConstIdle /\ ReadIdle

SpecEmit == EmitStart /\ [][EmitNext]_allVars

\* reassociate is a sequential loop as well
ReassocStart == ReassocInit /\ MemoIdle /\ ReorderIdle /\ EmitIdle /\ LruIdle /\ ConstIdle /\ ReadIdle

SpecReassoc == ReassocStart /\ [][ReassocNext]_allVars /\ WF_allVars(ReassocNext)

\* an Lru of every size, under every sequence of its operations
LruStart == LruInit /\ GvnIdle /\ MemoIdle /\ ReorderIdle /\ EmitIdle /\ ReassocIdle /\ ConstIdle /\ ReadIdle

SpecLru == LruStart /\ [][LruNext]_allVars

\* Const::new on every chosen f32
ConstStart ==
    ConstInit /\ GvnIdle /\ MemoIdle /\ ReorderIdle /\ EmitIdle /\ ReassocIdle /\ LruIdle
        /\ ReadIdle

SpecConst == ConstStart /\ [][ConstNext]_allVars

\* io::read on every chosen input, into Insts and into Simplify
ReadStart ==
    ReadInit /\ MemoIdle /\ ReorderIdle /\ EmitIdle /\ ReassocIdle /\ LruIdle /\ ConstIdle

SpecRead == ReadStart /\ [][ReadNext]_allVars

-----------------------------------------------------------------------------
(* Properties of Insts::push and Simplify *)

Indices(s) == 0 .. Len(s.pool) - 1
PosHandles(s) == {h \in HandlesOf(s) : h.sign = "Pos"}
Binop(op, h1, h2) == Call("binop", op, <<h1, h2>>, 0, 0)
Unop(op, h) == Call("unop", op, <<h>>, 0, 0)
Table(s) == IF s.sink = "insts" THEN s.gvn ELSE s.sgvn
NewInsts(s, t) == {At(t.pool, i) : i \in Len(s.pool) .. Len(t.pool) - 1}
Subs(s) == {i \in Indices(s) : IsBinOp(At(s.pool, i), "Sub")}

\* C2: pushing the same logical instruction a second time returns the same
\* index / handle as the first push and leaves the pool length unchanged,
\* for every instruction shape, every pool state and both sinks.
C2_Idempotent ==
    ~done =>
        \A call \in PushCalls(Sink) :
            LET r1 == Apply(Sink, call)
                r2 == Apply(r1.s, call)
            IN r2.r = r1.r /\ Len(r2.s.pool) = Len(r1.s.pool)

\* C3: when Sub(b,a) is in the value-number table, pushing Sub(a,b) creates
\* no Sub instruction and returns the negation of the existing Sub(b,a) (a
\* Neg instruction of it from Insts::push, a Neg handle to it from Simplify),
\* and pushing Sub(b,a) again afterwards still returns the original index.
C3_SubReversal ==
    ~done =>
        \A a \in PosHandles(Sink), b \in PosHandles(Sink) :
            BinOpI("Sub", b.idx, a.idx) \in DOMAIN Table(Sink) =>
                LET orig == Table(Sink)[BinOpI("Sub", b.idx, a.idx)]
                    r1 == Apply(Sink, Binop("Sub", a, b))
                    r2 == Apply(r1.s, Binop("Sub", b, a))
                IN /\ Subs(r1.s) = Subs(Sink)
                   /\ sink = "insts" =>
                         /\ r1.r.sign = "Pos"
                         /\ At(r1.s.pool, r1.r.idx) = UnOpI("Neg", orig)
                   /\ sink = "simplify" => r1.r = Neg(orig) /\ r1.s = Sink
                   /\ r2.r = Pos(orig)
                   /\ r2.s = r1.s

\* C4: every Add/Mul/Min/Max in the pool has its operand indices in ascending
\* order, no two pool entries have the same commutative op and the same
\* unordered operand pair, and op(a,b) and op(b,a) yield one index.
C4_Commutative ==
    /\ \A i \in Indices(Sink) :
          At(pool, i).k = "BinOp" /\ At(pool, i).op \in Commutative =>
              At(pool, i).args[1] <= At(pool, i).args[2]
    /\ \A i \in Indices(Sink), j \in Indices(Sink) :
          /\ i # j
          /\ At(pool, i).k = "BinOp"
          /\ At(pool, i).op \in Commutative
          /\ At(pool, j).k = "BinOp"
          /\ At(pool, j).op = At(pool, i).op
          => {At(pool, i).args[1], At(pool, i).args[2]}
                 # {At(pool, j).args[1], At(pool, j).args[2]}
    /\ ~done =>
          \A op \in Commutative, h1 \in PosHandles(Sink), h2 \in PosHandles(Sink) :
              LET r1 == Apply(Sink, Binop(op, h1, h2))
                  r2 == Apply(r1.s, Binop(op, h2, h1))
              IN r2.r = r1.r /\ r2.s = r1.s

\* a commutative instruction is in the pool and the push of its operands in
\* descending order lands on it
C4_Witness ==
    /\ ~done
    /\ \E i \in Indices(Sink) :
          /\ At(pool, i) = BinOpI("Add", 0, 1)
          /\ Apply(Sink, Binop("Add", Pos(1), Pos(0))) = [s |-> Sink, r |-> Pos(i)]

\* the spec's sign table: (operator, un-negated operands, result negated)
SignTable(op, h1, h2) ==
    LET x == h1.idx
        y == h2.idx
        row(o, a, b, n) == [op |-> o, args |-> <<a, b>>, negated |-> n]
    IN IF h1.sign = "Pos" /\ h2.sign = "Pos" THEN row(op, x, y, FALSE)
       ELSE IF h1.sign = "Neg" /\ h2.sign = "Neg"
            THEN CASE op = "Add" -> row("Add", x, y, TRUE)
                   [] op = "Sub" -> row("Sub", y, x, FALSE)
                   [] op = "Mul" -> row("Mul", x, y, FALSE)
                   [] op = "Min" -> row("Max", x, y, TRUE)
                   [] op = "Max" -> row("Min", x, y, TRUE)
       ELSE IF h1.sign = "Pos"
            THEN CASE op = "Add" -> row("Sub", x, y, FALSE)
                   [] op = "Sub" -> row("Add", x, y, FALSE)
                   [] op = "Mul" -> row("Mul", x, y, TRUE)
       ELSE CASE op = "Add" -> row("Sub", y, x, FALSE)
              [] op = "Sub" -> row("Add", x, y, TRUE)
              [] op = "Mul" -> row("Mul", x, y, TRUE)

InSignTable(op, h1, h2) ==
    op \in {"Add", "Sub", "Mul"} \/ (h1.sign = "Neg" /\ h2.sign = "Neg")

\* the table's BinOp as the pool records it (commutative operands ascending)
Tabled(t) ==
    BinOpA(t.op, IF t.op \in Commutative /\ t.args[2] < t.args[1]
                 THEN <<t.args[2], t.args[1]>> ELSE t.args)

Signed(negated, i) == IF negated THEN Neg(i) ELSE Pos(i)

\* the calls that may materialize a Neg instruction
ForcesNeg(call) ==
    \/ call.m = "unop" /\ call.op = "Sqrt" /\ call.hs[1].sign = "Neg"
    \/ call.m = "binop" /\ call.op \in {"Min", "Max"} /\ call.hs[1].sign # call.hs[2].sign
    \/ call.m = "finish" /\ call.hs[1].sign = "Neg"

\* pushing Neg only flips the handle's sign, Neg(Neg x) is x, and only the
\* calls of ForcesNeg add a Neg instruction to the pool
NegIsDelayed ==
    \A call \in PushCalls(Sink) \cup FinishCalls(Sink) :
        LET r == Apply(Sink, call)
        IN /\ call.m = "unop" /\ call.op = "Neg" =>
                 /\ r.s = Sink
                 /\ r.r = Negate(call.hs[1])
                 /\ r.r # call.hs[1]
                 /\ Negate(r.r) = call.hs[1]
           /\ (\E inst \in NewInsts(Sink, r.s) : IsUnOp(inst, "Neg")) => ForcesNeg(call)

\* C5 as stated: for every row of the sign table Simplify::push_binop pushes
\* to its base exactly one BinOp, the table's, and no Neg, and returns it
\* with the table's sign; Neg only flips the sign and is materialized only
\* for Sqrt, a mixed-sign Min/Max or finish.
C5_ExactlyOneBinOp ==
    sink = "simplify" /\ ~done =>
        /\ \A op \in BinOps, h1 \in HandlesOf(Sink), h2 \in HandlesOf(Sink) :
              InSignTable(op, h1, h2) =>
                  LET t == SignTable(op, h1, h2)
                      r == Apply(Sink, Binop(op, h1, h2))
                  IN /\ r.s.pool = Append(pool, Tabled(t))
                     /\ r.r = Signed(t.negated, Len(pool))
        /\ NegIsDelayed

\* C5 amended: for every row of the sign table push_binop looks up exactly
\* one BinOp, the table's, and pushes at most one instruction, never a Neg:
\* the table's BinOp if it has no value number yet (returned with the
\* table's sign); nothing if it has one (that index is returned with the
\* table's sign); nothing if the table's op is Sub and the reversed Sub has
\* a value number (the Neg-signed handle of the reversed Sub is returned).
\* Neg only flips the sign and is materialized only for Sqrt, a mixed-sign
\* Min/Max or finish.
C5_SignFolding ==
    sink = "simplify" /\ ~done =>
        /\ \A op \in BinOps, h1 \in HandlesOf(Sink), h2 \in HandlesOf(Sink) :
              InSignTable(op, h1, h2) =>
                  LET t == SignTable(op, h1, h2)
                      rev == BinOpI("Sub", t.args[2], t.args[1])
                      r == Apply(Sink, Binop(op, h1, h2))
                  IN IF t.op = "Sub" /\ rev \in DOMAIN sgvn
                     THEN r.s = Sink /\ r.r = Neg(sgvn[rev]) /\ ~t.negated
                     ELSE IF Tabled(t) \in DOMAIN sgvn
                          THEN r.s = Sink /\ r.r = Signed(t.negated, sgvn[Tabled(t)])
                     ELSE /\ r.s.pool = Append(pool, Tabled(t))
                          /\ r.r = Signed(t.negated, Len(pool))
        /\ NegIsDelayed

\* min of two negated handles folds into one new Max, returned negated, while
\* the same fold of a value-numbered pair pushes nothing
C5_Witness ==
    /\ sink = "simplify"
    /\ ~done
    /\ \E h1 \in PosHandles(Sink), h2 \in PosHandles(Sink) :
          /\ h1.idx < h2.idx
          /\ Apply(Sink, Binop("Min", Negate(h1), Negate(h2))).s.pool
                = Append(pool, BinOpI("Max", h1.idx, h2.idx))
          /\ Apply(Sink, Binop("Min", Negate(h1), Negate(h2))).r = Neg(Len(pool))
          /\ BinOpI("Sub", h1.idx, h2.idx) \in DOMAIN sgvn
          /\ Apply(Sink, Binop("Add", h1, Negate(h2))).s = Sink

\* a sink after construction
NewSink(k) == [sink |-> k, pool |-> <<>>, vars |-> <<>>, gvn |-> <<>>, sgvn |-> <<>>]

\* the pool Simplify leaves for the program `var-x; neg v0; square v1`
SquareOfNegProgram ==
    LET v0 == Apply(NewSink("simplify"), Call("var", "", <<>>, 0, 0))
        v1 == Apply(v0.s, Unop("Neg", v0.r))
        v2 == Apply(v1.s, Unop("Square", v1.r))
    IN Apply(v2.s, Call("finish", "", <<v2.r>>, 0, 0)).s.pool

\* C6: pushing Square(Neg x) returns the same instruction as pushing
\* Square(x), a Square of x itself, in Insts::push and in Simplify; the
\* program `var-x; neg v0; square v1` simplifies to the pool (Var X, Square 0).
C6_SquareNeg ==
    /\ sink = "insts" /\ ~done =>
          \A i \in Indices(Sink) :
              IsUnOp(At(pool, i), "Neg") =>
                  LET x == At(pool, i).args[1]
                      r == Apply(Sink, Unop("Square", Pos(i)))
                  IN /\ r = Apply(Sink, Unop("Square", Pos(x)))
                     /\ At(r.s.pool, r.r.idx) = UnOpI("Square", x)
    /\ sink = "simplify" /\ ~done =>
          \A h \in PosHandles(Sink) :
              LET n == Apply(Sink, Unop("Neg", h))
                  r == Apply(n.s, Unop("Square", n.r))
              IN /\ n.r = Neg(h.idx)
                 /\ r = Apply(Sink, Unop("Square", h))
                 /\ r.r.sign = "Pos"
                 /\ At(r.s.pool, r.r.idx) = UnOpI("Square", h.idx)
    /\ SquareOfNegProgram = <<VarI(0), UnOpI("Square", 0)>>

\* a VarSet mask as the set of variables it holds
MaskSet(m) == {v \in Vars : Bit(m, v) = 1}

WellFormed(s) ==
    /\ Len(s.vars) = Len(s.pool)
    /\ \A i \in Indices(s) :
          LET inst == At(s.pool, i)
              vs(j) == MaskSet(At(s.vars, j))
          IN /\ At(s.vars, i) \in 0 .. 7
             /\ \A k \in DOMAIN inst.args : inst.args[k] \in 0 .. i - 1
             /\ inst.k = "Const" => vs(i) = {}
             /\ inst.k = "Var" => vs(i) = {inst.val}
             /\ inst.k = "Load" => At(s.vars, i) = inst.val
             /\ inst.k = "UnOp" => vs(i) = vs(inst.args[1])
             /\ inst.k = "BinOp" => vs(i) = vs(inst.args[1]) \cup vs(inst.args[2])

\* C7: in the pool every UnOp/BinOp has its argument indices strictly below
\* its own index, and the VarSet recorded for every index is empty for a
\* Const, {v} for Var v, the declared set for a Load and the union of the
\* operands' recorded VarSets for a UnOp/BinOp, the instructions created by
\* the Sub-reversal and Square(Neg) rewrites included.
C7_WellFormed ==
    /\ WellFormed(Sink)
    /\ ~done => \A call \in PushCalls(Sink) : WellFormed(Apply(Sink, call).s)

\* Insts holds Sub(b,a) over operands of different VarSets, and the push of
\* Sub(a,b) appends a Neg recorded with the union of both
C7_Witness ==
    /\ sink = "insts"
    /\ ~done
    /\ pool = <<VarI(0), LoadI(2, 0), BinOpI("Sub", 0, 1)>>
    /\ vars = <<1, 2, 3>>
    /\ Apply(Sink, Binop("Sub", Pos(1), Pos(0))).s.pool = Append(pool, UnOpI("Neg", 2))
    /\ Apply(Sink, Binop("Sub", Pos(1), Pos(0))).s.vars = Append(vars, 3)

-----------------------------------------------------------------------------
(* Properties of MemoBuilder *)

\* the variables instruction i of a function depends on, through its operands
RECURSIVE DependsOn(_, _)
DependsOn(insts, i) ==
    LET inst == At(insts, i)
    IN CASE inst.k = "Load" -> MaskSet(inst.val)
         [] inst.k = "UnOp" -> DependsOn(insts, inst.args[1])
         [] inst.k = "BinOp" ->
               DependsOn(insts, inst.args[1]) \cup DependsOn(insts, inst.args[2])
         [] OTHER -> {}

\* the Load that materializes Var v inside the function {v}: it reads slot 0,
\* which Memoized::default reserves there
IsOwnVarLoad(m, f, inst) ==
    /\ inst.val = f
    /\ inst.loc = 0
    /\ f \in {VarSetOf(v) : v \in Vars}
    /\ m.funcs[f].outputs[1] = None

\* operands stay inside the function and every UnOp/BinOp depends on exactly V
OperandsLocal(m) ==
    \A f \in Funcs :
        \A i \in 0 .. Len(m.funcs[f].insts) - 1 :
            LET inst == At(m.funcs[f].insts, i)
            IN inst.k # "Load" =>
                  /\ inst.k \in {"UnOp", "BinOp"}
                  /\ \A k \in DOMAIN inst.args : inst.args[k] \in 0 .. i - 1
                  /\ DependsOn(m.funcs[f].insts, i) = MaskSet(f)

LoadsStrict(m) ==
    \A f \in Funcs :
        \A i \in 0 .. Len(m.funcs[f].insts) - 1 :
            LET inst == At(m.funcs[f].insts, i)
            IN inst.k = "Load" =>
                  MaskSet(inst.val) \subseteq MaskSet(f) /\ inst.val # f

LoadsStrictButOwnVar(m) ==
    \A f \in Funcs :
        \A i \in 0 .. Len(m.funcs[f].insts) - 1 :
            LET inst == At(m.funcs[f].insts, i)
            IN inst.k = "Load" =>
                  /\ MaskSet(inst.val) \subseteq MaskSet(f)
                  /\ inst.val = f => IsOwnVarLoad(m, f, inst)

\* C8 as stated: in every MemoizedFunc with VarSet V the operands of every
\* UnOp/BinOp are instructions of that function and the variables it depends
\* on are exactly V, and every Load has a VarSet that is a strict subset of V,
\* the Loads that materialize a Var included.
C8_Locality ==
    OperandsLocal(Memo) /\ LoadsStrict(Memo)

\* C8 amended: the operands of every UnOp/BinOp are instructions of its
\* function and it depends on exactly V; every Load has a VarSet that is a
\* subset of V, strict except for the Load that materializes Var v inside
\* the function {v} itself (Load of {v} at the reserved slot 0).
C8_LocalityButOwnVar ==
    /\ OperandsLocal(Memo)
    /\ LoadsStrictButOwnVar(Memo)
    /\ ~mdone =>
          \A call \in MemoCalls(Memo) :
              LET r == MemoApply(Memo, call)
              IN r.ok => OperandsLocal(r.m) /\ LoadsStrictButOwnVar(r.m)

\* the {x} function holds Load x and its Neg, and multiplying that value by
\* y exports it to slot 1 and builds the {x,y} function from two Loads of
\* strict subsets
C8_Witness ==
    /\ ~mdone
    /\ funcs[1].insts = <<LoadI(1, 0), UnOpI("Neg", 0)>>
    /\ funcs[1].outputs = <<None>>
    /\ LET r == MemoApply(Memo, Call("binop", "Mul",
                    <<MemoIdx(1, Some(1)), MemoIdx(2, None)>>, 0, 0))
       IN /\ r.ok
          /\ r.m.funcs[3].insts = <<LoadI(1, 1), LoadI(2, 0), BinOpI("Mul", 0, 1)>>
          /\ r.m.funcs[1].outputs = <<None, Some(1)>>

\* the program `const c; var-x; mul v0 v1; mul v0 v2; ...` with n mul lines
RECURSIVE MulChain(_, _, _, _)
MulChain(m, c, prev, n) ==
    IF n = 0 THEN [m |-> m, r |-> prev]
    ELSE Bind(MemoPushBinop(m, "Mul", c, prev), LAMBDA p : MulChain(p.m, c, p.r, n - 1))

MulChainProgram(m, n) ==
    LET c == MemoPushConst(m, 1073741824)
        x == MemoPushVar(c.m, 0)
        last == MulChain(x.m, c.r, x.r, n)
    IN MemoFinish(last.m, last.r).m

\* the instructions memoize makes for the chain: two Loads, then the n Muls
MulChainInsts(n) ==
    [i \in 1 .. n + 2 |->
        IF i = 1 THEN LoadI(0, 0)
        ELSE IF i = 2 THEN LoadI(1, 0)
        ELSE BinOpI("Mul", 0, i - 2)]

LoadsOf(m, f, vs) ==
    {i \in 0 .. Len(m.funcs[f].insts) - 1 :
        At(m.funcs[f].insts, i).k = "Load" /\ At(m.funcs[f].insts, i).val = vs}

\* a finished program that used one constant and no variable but x
OneConstOnlyX(m) ==
    /\ Len(m.consts) = 1
    /\ LoadsOf(m, 1, 0) # {}
    /\ \A f \in Funcs \ {1} : m.funcs[f].insts = <<>>

OneLoadEach(m) ==
    /\ Cardinality(LoadsOf(m, 1, 0)) = 1
    /\ Cardinality(LoadsOf(m, 1, 1)) = 1
    /\ \A i \in 0 .. Len(m.funcs[1].insts) - 1 :
          At(m.funcs[1].insts, i).k \in {"Load", "UnOp", "BinOp"}

ChainShape(p, n) ==
    /\ p.consts = <<1073741824>>
    /\ p.funcs[1].insts = MulChainInsts(n)
    /\ \A f \in Funcs \ {1} : p.funcs[f].insts = <<>>

\* C9 as stated: a program over x alone that uses one constant memoizes to
\* one non-empty function, {x}, with one Load of the constant, one Load of x,
\* one instruction per arithmetic op and exactly one output slot, and to a
\* consts table of one entry; so do the chains of 1 to 16 multiplications
\* read into a new MemoBuilder.
C9_OneOutputSlot ==
    /\ mdone /\ OneConstOnlyX(Memo) =>
          OneLoadEach(Memo) /\ Len(funcs[1].outputs) = 1
    /\ Memo = MemoBuilderDefault =>
          \A n \in 1 .. MaxChain :
              LET p == MulChainProgram(Memo, n)
              IN ChainShape(p, n) /\ Len(p.funcs[1].outputs) = 1

\* C9 amended: as stated, except that the {x} function has two output
\* slots: slot 0, reserved for x and without a definer, and slot 1, the one
\* defined output, whose definer is an arithmetic instruction (the last one
\* in the chains).
C9_OneDefinedOutput ==
    /\ mdone /\ OneConstOnlyX(Memo) =>
          /\ OneLoadEach(Memo)
          /\ Len(funcs[1].outputs) = 2
          /\ funcs[1].outputs[1] = None
          /\ funcs[1].outputs[2] # None
          /\ At(funcs[1].insts, funcs[1].outputs[2][1]).k \in {"UnOp", "BinOp"}
    /\ Memo = MemoBuilderDefault =>
          \A n \in 1 .. MaxChain :
              LET p == MulChainProgram(Memo, n)
              IN ChainShape(p, n) /\ p.funcs[1].outputs = <<None, Some(n + 1)>>

\* the program `const 2; var-x; mul v0 v1` has been memoized
C9_Witness ==
    /\ mdone
    /\ consts = <<1073741824>>
    /\ funcs[1].insts = <<LoadI(0, 0), LoadI(1, 0), BinOpI("Mul", 0, 1)>>
    /\ funcs[1].outputs = <<None, Some(2)>>
    /\ Memo = MulChainProgram(MemoBuilderDefault, 1)

-----------------------------------------------------------------------------
(* Properties of reorder *)

\* the instructions of the input pool reachable from its last instruction
Live == Reach(input.pool, {Len(input.pool) - 1}, Len(input.pool))

\* m sends the reachable instructions one-to-one to the new pool, with the
\* same instruction over remapped arguments and the same VarSet
IsRenaming(m) ==
    /\ \A a \in Live, b \in Live : m[a] = m[b] => a = b
    /\ \A old \in Live :
          LET was == At(input.pool, old)
              now == At(pool, m[old])
          IN /\ now.k = was.k /\ now.op = was.op /\ now.val = was.val /\ now.loc = was.loc
             /\ Len(now.args) = Len(was.args)
             /\ \A k \in DOMAIN was.args : was.args[k] \in Live /\ now.args[k] = m[was.args[k]]
             /\ At(vars, m[old]) = At(input.vars, old)
    /\ m[Len(input.pool) - 1] = Len(pool) - 1

Reordered ==
    rpc = "done" /\ input.pool # <<>> =>
        /\ Len(pool) = Cardinality(Live)
        /\ Len(vars) = Len(pool)
        /\ \E m \in [Live -> 0 .. Len(pool) - 1] : IsRenaming(m)
        /\ \A k \in 0 .. Len(pool) - 1 : \A a \in ArgsOf(pool, k) : a < k

\* C10: on any acyclic pool, arguments before their users or not, reorder
\* terminates, and then the pool holds exactly the instructions reachable
\* from the old last instruction, each once, with its op unchanged and its
\* arguments remapped, the root last, every argument index below its user's
\* and the VarSet array permuted the same way.
C10_Reorder == [](Reordered) /\ <>(rpc = "done")

\* reorder has finished a pool whose first instruction uses the second, and
\* one whose middle instruction is unreachable is cut to two instructions
C10_Witness ==
    /\ rpc = "done"
    /\ \/ /\ input.pool = <<UnOpI("Neg", 1), VarI(0), BinOpI("Sub", 0, 1)>>
          /\ pool = <<VarI(0), UnOpI("Neg", 0), BinOpI("Sub", 1, 0)>>
          /\ vars = <<1, 1, 1>>
       \/ /\ input.pool = <<VarI(1), VarI(0), UnOpI("Neg", 0)>>
          /\ pool = <<VarI(1), UnOpI("Neg", 0)>>
          /\ vars = <<2, 2>>


-----------------------------------------------------------------------------
(* Register allocation: running the emitted code *)

\* The machine the emitted instructions run on.  A value is the index of the
\* SSA instruction that computes it (NegAlloc for the sign constant).
Undef == 0 - 1

Homes(f) == (1 .. 9) \X (0 .. Len(f.insts) + 1)

MachineInit(f, n) ==
    [reg |-> [r \in 0 .. n - 1 |-> Undef],
     mem |-> [h \in Homes(f) |->
                IF h = <<MemorySpaceOf(0), f.neg_const>> THEN NegAlloc(f)
                ELSE IF \E i \in 1 .. Len(f.insts) :
                            f.insts[i].k = "Load"
                            /\ h = <<MemorySpaceOf(f.insts[i].val), f.insts[i].loc>>
                THEN (CHOOSE i \in 1 .. Len(f.insts) :
                            f.insts[i].k = "Load"
                            /\ h = <<MemorySpaceOf(f.insts[i].val), f.insts[i].loc>>) - 1
                ELSE Undef],
     next |-> 0,
     ok |-> TRUE,
     defined |-> TRUE]

RECURSIVE ComputedSeq(_, _)
ComputedSeq(insts, i) ==
    IF i >= Len(insts) THEN <<>>
    ELSE (IF At(insts, i).k # "Load" THEN <<i>> ELSE <<>>) \o ComputedSeq(insts, i + 1)

Operand(m, x) ==
    IF x.k = "Xmm" THEN m.reg[x.reg] ELSE m.mem[<<x.addr[1], x.addr[2]>>]

IsArith(x) == x.k = "XmmRmR" \/ (x.k = "XmmUnaryRmRVex" /\ x.op = "Vsqrtps")

\* the emitted instruction x computes SSA instruction c from the values c names
ReadsNamed(f, m, x, c) ==
    LET inst == At(f.insts, c)
    IN CASE inst.k = "BinOp" ->
              /\ x.k = "XmmRmR" /\ x.op = XmmRmROpcode(inst.op)
              /\ m.reg[x.src1] = inst.args[1]
              /\ Operand(m, x.src2) = inst.args[2]
         [] inst.k = "UnOp" /\ inst.op = "Neg" ->
              /\ x.k = "XmmRmR" /\ x.op = "Vxorps"
              /\ m.reg[x.src1] = inst.args[1]
              /\ Operand(m, x.src2) = NegAlloc(f)
         [] inst.k = "UnOp" /\ inst.op = "Square" ->
              /\ x.k = "XmmRmR" /\ x.op = "Vmulps"
              /\ m.reg[x.src1] = inst.args[1]
              /\ Operand(m, x.src2) = inst.args[1]
         [] inst.k = "UnOp" /\ inst.op = "Sqrt" ->
              /\ x.k = "XmmUnaryRmRVex"
              /\ Operand(m, x.src) = inst.args[1]

Step(f, comp, m, x) ==
    IF IsArith(x)
    THEN IF m.next >= Len(comp) THEN [m EXCEPT !.ok = FALSE]
         ELSE [m EXCEPT !.ok = @ /\ ReadsNamed(f, m, x, comp[m.next + 1]),
                        !.reg[x.dst] = comp[m.next + 1],
                        !.next = @ + 1]
    ELSE IF x.k = "XmmUnaryRmRVex"
    THEN [m EXCEPT !.reg[x.dst] = Operand(m, x.src),
                   !.defined = @ /\ Operand(m, x.src) # Undef]
    ELSE [m EXCEPT !.mem[<<x.dst.addr[1], x.dst.addr[2]>>] = m.reg[x.src]]

\* run insts[k], insts[k - 1], ..., insts[1]: the final order is the reverse
RECURSIVE Run(_, _, _, _, _)
Run(f, comp, insts, k, m) ==
    IF k = 0 THEN m
    ELSE Bind(Step(f, comp, m, insts[k]), LAMBDA m1 : Run(f, comp, insts, k - 1, m1))

Emitted == Run(func, ComputedSeq(func.insts, 0), regs.target.insts,
               Len(regs.target.insts), MachineInit(func, Len(regs.live)))

OutputsStored(f, m) ==
    \A i \in 1 .. Len(f.outputs) :
        f.outputs[i] # None => m.mem[<<MemorySpaceOf(f.vars), i - 1>>] = f.outputs[i][1]

-----------------------------------------------------------------------------
(* Properties of reassociate *)

\* sample points (x, y, z)
Points == {<<2, 3, 5>>, <<0 - 3, 7, 0 - 1>>}

\* Sqrt is not interpreted by the pass: any fixed function stands for it
SqrtU(v) == v * v + v + 1

\* The value instruction i of pool p denotes at point pt, over the integers;
\* None when i is not the root of a finite tree (fuel counts the depth).
RECURSIVE Value(_, _, _, _)
Value(p, i, pt, fuel) ==
    LET inst == At(p, i)
        a == Value(p, inst.args[1], pt, fuel - 1)
        b == Value(p, inst.args[2], pt, fuel - 1)
        min(u, v) == IF u <= v THEN u ELSE v
        max(u, v) == IF u <= v THEN v ELSE u
    IN IF fuel = 0 THEN None
       ELSE CASE inst.k = "Var" -> Some(pt[inst.val + 1])
              [] inst.k = "Const" -> Some(inst.val)
              [] inst.k = "Load" -> None
              [] inst.k = "UnOp" ->
                    IF a = None THEN None
                    ELSE (CASE inst.op = "Neg" -> Some(0 - a[1])
                            [] inst.op = "Square" -> Some(a[1] * a[1])
                            [] inst.op = "Sqrt" -> Some(SqrtU(a[1])))
              [] inst.k = "BinOp" ->
                    IF a = None \/ b = None THEN None
                    ELSE (CASE inst.op = "Add" -> Some(a[1] + b[1])
                            [] inst.op = "Sub" -> Some(a[1] - b[1])
                            [] inst.op = "Mul" -> Some(a[1] * b[1])
                            [] inst.op = "Min" -> Some(min(a[1], b[1]))
                            [] inst.op = "Max" -> Some(max(a[1], b[1])))

RootValue(p, pt) == Value(p, Len(p) - 1, pt, Len(p))

\* the instructions of p reachable from its root
Reachable(p) == IF p = <<>> THEN {} ELSE Reach(p, {Len(p) - 1}, Len(p))

\* how many operand slots of the pool's instructions name a
UseCount(p, a) ==
    Cardinality({u \in (0 .. Len(p) - 1) \X {1, 2} :
                    u[2] <= Len(At(p, u[1]).args) /\ At(p, u[1]).args[u[2]] = a})

\* the invariant of the commutative BinOp at r
Established(r) ==
    LET inst == At(pool, r)
        a == inst.args[1]
        b == inst.args[2]
    IN \/ At(vars, a) < At(vars, b)
       \/ /\ At(vars, a) = At(vars, b)
          /\ \/ ~IsBinOp(At(pool, a), inst.op)
             \/ UseCount(pool, a) > 1
             \/ UseCount(pool, b) > 1

CommutativeRoots ==
    {r \in Reachable(pool) : At(pool, r).k = "BinOp" /\ At(pool, r).op \in Commutative}

\* C11: after reassociate, every commutative BinOp r reachable from the root,
\* with operands a and b, has VarSet(a) < VarSet(b), or VarSet(a) = VarSet(b)
\* and a's operator differs from r's or a or b has multiple uses.  VarSet is
\* Insts.vars, ordered by mask value (the derived Ord of VarSet); a use is an
\* operand slot of the pool naming the instruction.
C11_OutputInvariant ==
    apc = "done" => \A r \in CommutativeRoots : Established(r)

\* C12: the root of the reassociated pool denotes the value the root of the
\* input pool denotes, at every point, over exact arithmetic.
C12_PreservesValue ==
    (apc = "done" /\ pool # <<>>) =>
        \A pt \in Points : RootValue(pool, pt) = RootValue(given.pool, pt)

\* C13: on every well-formed pool reassociate runs to completion: it never
\* panics and its stack empties for the last time.
C13_NeverFails == <>(apc = "done")

\* the VarSet the instruction at i has by the recorded VarSets of its operands
VarsByOperands(i) ==
    LET inst == At(pool, i)
    IN CASE inst.k = "Const" -> 0
         [] inst.k = "Var" -> VarSetOf(inst.val)
         [] inst.k = "Load" -> inst.val
         [] inst.k = "UnOp" -> At(vars, inst.args[1])
         [] inst.k = "BinOp" -> BitOr(At(vars, inst.args[1]), At(vars, inst.args[2]))

\* C26: after reassociate the VarSet recorded for every instruction is the
\* union of the VarSets recorded for its operands ({v} for Var v, empty for
\* a Const).
C26_VarsExact ==
    apc = "done" => \A i \in 0 .. Len(pool) - 1 : At(vars, i) = VarsByOperands(i)

-----------------------------------------------------------------------------
(* Properties of the register allocator's sunk loads and spill slots *)

\* the instruction writes register r / reads register r
WritesReg(inst, r) == inst.k \in {"XmmRmR", "XmmUnaryRmRVex"} /\ inst.dst = r
ReadsReg(inst, r) ==
    CASE inst.k = "XmmRmR" -> inst.src1 = r \/ inst.src2 = XmmOp(r)
      [] inst.k = "XmmUnaryRmRVex" -> inst.src = XmmOp(r)
      [] inst.k = "XmmMovRMVex" -> inst.src = r

\* The consumer of the load queued with patch position at: the arithmetic
\* instruction pushed after the queueing (reloads may come before it).
ConsumerOf(at) ==
    CHOOSE j \in at .. Len(regs.target.insts) - 1 :
        /\ IsArith(At(regs.target.insts, j))
        /\ \A i \in at .. j - 1 : ~IsArith(At(regs.target.insts, i))

\* the instructions emitted after the consumer and before the patch e
SincePatchQueued(e) == ConsumerOf(e.at) + 1 .. e.len - 1

PatchCalls == {regs.patches[k] : k \in DOMAIN regs.patches}
PatchesApplied == {e \in PatchCalls : e.returned}

\* C14: when float_load patches a queued sunk load into register R, nothing
\* the allocator did since the load was queued assigned, touched or loaded R:
\* no instruction emitted after the load's consumer and before the patch
\* writes or reads R, and the consumer does not read R as its first source.
C14_PatchMonotone ==
    \A e \in PatchesApplied :
        /\ \A j \in SincePatchQueued(e) :
              /\ ~WritesReg(At(regs.target.insts, j), e.reg)
              /\ ~ReadsReg(At(regs.target.insts, j), e.reg)
        /\ At(regs.target.insts, ConsumerOf(e.at)).k = "XmmRmR"
              => At(regs.target.insts, ConsumerOf(e.at)).src1 # e.reg

\* a sunk load was patched into a register after other instructions, one of
\* them writing a register, had been emitted behind its consumer
C14_Witness ==
    \E e \in PatchesApplied :
        /\ At(regs.target.insts, e.at).k = "XmmRmR"
        /\ At(regs.target.insts, e.at).src2 = XmmOp(e.reg)
        /\ \E j \in SincePatchQueued(e) :
              \E r \in 0 .. Len(regs.live) - 1 : WritesReg(At(regs.target.insts, j), r)

\* the values whose definition the backward walk has not reached, with a home
Unreached ==
    {i \in 0 .. Len(regs.allocs) - 1 :
        (i < eidx \/ i = NegAlloc(func)) /\ At(regs.allocs, i).mem # None}

HomeOf(i) == <<At(regs.allocs, i).mem[1], At(regs.allocs, i).loc>>

\* the target stores to home h at index j of the emitted stream
StoresTo(j, h) ==
    /\ At(regs.target.insts, j).k = "XmmMovRMVex"
    /\ At(regs.target.insts, j).dst.addr[1] = h[1]
    /\ At(regs.target.insts, j).dst.addr[2] = h[2]

\* C19: no two values whose definitions are still to come share a home, and
\* the home an eviction by a patched sunk load takes was not freed (stored
\* to) after that load was queued.
C19_SlotRecycling ==
    /\ \A i \in Unreached, j \in Unreached : i # j => HomeOf(i) # HomeOf(j)
    /\ \A e \in PatchCalls :
          e.home # None =>
              \A j \in e.at .. e.len - 1 : ~StoresTo(j, e.home[1])

\* a patched sunk load evicted a value without a home while a slot freed
\* after the load was queued was on the free list, and took an older one
C19_Witness ==
    \E e \in PatchesApplied :
        /\ e.home # None
        /\ e.young # {}
        /\ \E j \in 0 .. e.at - 1 : StoresTo(j, e.home[1])

\* C20: whenever patch_sunk_load(patch_at, reg) is called, patch_at is the
\* index of an instruction already emitted, and that instruction is the
\* arithmetic instruction consuming the sunk load.
C20_PatchPosition ==
    \A e \in PatchCalls :
        /\ e.at < e.len
        /\ IsArith(At(regs.target.insts, e.at))

-----------------------------------------------------------------------------
(* Properties of the register file *)

\* the values whose definition the backward walk has not reached
Undefined == {i \in 0 .. Len(regs.allocs) - 1 : i < eidx \/ (i = NegAlloc(func) /\ epc # "done")}

\* C29: at every point of the backward walk, a register recorded as holding
\* value i is the register i is assigned to; a value whose definition is
\* still to come and that is assigned a register is recorded as held by it;
\* no two such values share a register; and no debug assertion of get_reg or
\* clobber has compared two different values.
C29_RegisterFile ==
    /\ \A r \in 0 .. Len(regs.live) - 1 :
          At(regs.live, r) # None =>
              At(regs.allocs, At(regs.live, r)[1]).reg = RegisterState("Reg", r)
    /\ \A i \in Undefined :
          At(regs.allocs, i).reg.k = "Reg" =>
              At(regs.live, At(regs.allocs, i).reg.i) = Some(i)
    /\ \A i \in Undefined, j \in Undefined :
          (i # j /\ At(regs.allocs, i).reg.k = "Reg" /\ At(regs.allocs, j).reg.k = "Reg")
              => At(regs.allocs, i).reg.i # At(regs.allocs, j).reg.i
    /\ ~regs.debug_failed

\* an eviction has happened (clobber found its register holding a value) and
\* two values still to be defined sit in different registers
C29_Witness ==
    /\ epc = "walk"
    /\ regs.evictions # <<>>
    /\ \E i \in Undefined, j \in Undefined :
          /\ i # j
          /\ At(regs.allocs, i).reg.k = "Reg"
          /\ At(regs.allocs, j).reg.k = "Reg"

-----------------------------------------------------------------------------
(* Properties of evictions and of load emission *)

Evictions == {regs.evictions[k] : k \in DOMAIN regs.evictions}

IsLoadOf(x, reg, mem, loc) ==
    /\ x.k = "XmmUnaryRmRVex" /\ x.op # "Vsqrtps"
    /\ x.dst = reg
    /\ x.src.k = "Mem" /\ x.src.addr[1] = mem /\ x.src.addr[2] = loc

HomeKept(e) ==
    /\ e.after.mem = e.before.mem /\ e.after.loc = e.before.loc
    /\ e.stack_slots[2] = e.stack_slots[1]
    /\ e.free_slots[2] = e.free_slots[1]

FreeSlotTaken(e) ==
    /\ \E k \in DOMAIN e.free_slots[1] :
          /\ e.after.mem = Some(e.free_slots[1][k][2])
          /\ e.after.loc = e.free_slots[1][k][3]
    /\ Len(e.free_slots[2]) = Len(e.free_slots[1]) - 1
    /\ \A k \in DOMAIN e.free_slots[2] :
          \E m \in DOMAIN e.free_slots[1] : e.free_slots[2][k] = e.free_slots[1][m]
    /\ e.stack_slots[2] = e.stack_slots[1]

NewStackSlot(e) ==
    /\ e.after.mem = Some(STACK) /\ e.after.loc = e.stack_slots[1]
    /\ e.stack_slots[2] = e.stack_slots[1] + 1
    /\ e.free_slots[2] = e.free_slots[1]

\* C22: when get_reg misses and the register it pops holds a live value j, j
\* becomes Unallocated and the instruction get_reg emits is a load of j's home
\* into that register; a home j already had is kept with stack_slots and
\* free_slots unchanged, otherwise j takes a free slot if there is one, and
\* only otherwise a new stack slot numbered with the old stack_slots count.
C22_EvictionHome ==
    \A e \in Evictions :
        /\ e.victim # e.for
        /\ e.before.reg = RegisterState("Reg", e.reg)
        /\ e.after.reg = RegisterState("Unallocated", 0)
        /\ e.after.mem # None
        /\ Len(regs.target.insts) > e.len
        /\ IsLoadOf(At(regs.target.insts, e.len), e.reg, e.after.mem[1], e.after.loc)
        /\ IF e.before.mem # None THEN HomeKept(e)
           ELSE IF e.free_slots[1] # <<>> THEN FreeSlotTaken(e)
           ELSE NewStackSlot(e)

\* one eviction kept the home its value had while a slot was free, and
\* another gave a value without a home one
C22_Witness ==
    /\ \E e \in Evictions : e.before.mem # None /\ e.free_slots[1] # <<>>
    /\ \E e \in Evictions : e.before.mem = None

\* The walk is at a Load whose state is an assigned register: emit_load emits
\* the load into that register and releases it; in any other state (its
\* register was taken by an eviction, or it is a queued sunk load) it leaves
\* the Registers as they are.
C23_EmitLoadRule ==
    [][EmitLoadInst =>
        LET idx == eidx - 1
            alloc == At(regs.allocs, idx)
            inst == At(func.insts, idx)
        IN IF alloc.reg.k = "Reg"
           THEN /\ Len(regs'.target.insts) = Len(regs.target.insts) + 1
                /\ SubSeq(regs'.target.insts, 1, Len(regs.target.insts)) = regs.target.insts
                /\ IsLoadOf(At(regs'.target.insts, Len(regs.target.insts)), alloc.reg.i,
                            MemorySpaceOf(inst.val), inst.loc)
                /\ At(regs.live, alloc.reg.i) = Some(idx)
                /\ At(regs'.live, alloc.reg.i) = None
                /\ LruPop(regs'.recent).r = alloc.reg.i
           ELSE regs' = regs]_allVars

\* the register operands of the emitted instruction x, which computes SSA
\* instruction c, that stand for a Load hold what that Load loads
RegLoadsNamed(f, m, x, c) ==
    LET inst == At(f.insts, c)
        second == IF inst.k = "BinOp" THEN inst.args[2]
                  ELSE IF inst.op = "Neg" THEN NegAlloc(f) ELSE inst.args[1]
        isLoad(v) == v < Len(f.insts) /\ At(f.insts, v).k = "Load"
    IN IF x.k = "XmmRmR"
       THEN /\ isLoad(inst.args[1]) => m.reg[x.src1] = inst.args[1]
            /\ (x.src2.k = "Xmm" /\ isLoad(second)) => m.reg[x.src2.reg] = second
       ELSE (x.src.k = "Xmm" /\ isLoad(inst.args[1])) => m.reg[x.src.reg] = inst.args[1]

RECURSIVE LoadUsesOk(_, _, _, _, _)
LoadUsesOk(f, comp, insts, k, m) ==
    IF k = 0 THEN TRUE
    ELSE /\ (IsArith(insts[k]) /\ m.next < Len(comp))
                => RegLoadsNamed(f, m, insts[k], comp[m.next + 1])
         /\ LoadUsesOk(f, comp, insts, k - 1, Step(f, comp, m, insts[k]))

-----------------------------------------------------------------------------
(* Properties of the SinkLoads settings *)

\* the emitted arithmetic instruction x reads an operand from memory
HasMemOperand(x) ==
    \/ x.k = "XmmRmR" /\ x.src2.k = "Mem"
    \/ x.k = "XmmUnaryRmRVex" /\ x.op = "Vsqrtps" /\ x.src.k = "Mem"

NothingQueued ==
    /\ regs.dirty_pool.front = 0
    /\ \A i \in 0 .. Len(regs.allocs) - 1 : At(regs.allocs, i).reg.k # "SunkLoad"
    /\ regs.patches = <<>>
    /\ regs.kept = <<>>

LoadsLeftSunk == {regs.kept[k] : k \in DOMAIN regs.kept}

\* C24: with SinkLoads::None sink_load returns false (every operand is read
\* from a register) and nothing is queued; with All nothing is queued and
\* nothing is patched; with RequireDead a queued load is patched only into a
\* register that is clean and holds no value, clobber evicts nothing, and a
\* load still in the ring for which there is no such register stays a memory
\* operand.
C24_SinkModes ==
    /\ regs.config.sink_loads = "None" =>
          /\ NothingQueued
          /\ \A k \in DOMAIN regs.target.insts : ~HasMemOperand(regs.target.insts[k])
    /\ regs.config.sink_loads = "All" => NothingQueued
    /\ regs.config.sink_loads = "RequireDead" =>
          /\ \A e \in PatchCalls :
                /\ e.reg \in e.clean
                /\ e.live = None
                /\ e.other = None
          /\ \A e \in LoadsLeftSunk :
                /\ e.clean \cap e.dead = {}
                /\ (e.present /\ e.at < Len(regs.target.insts))
                        => HasMemOperand(At(regs.target.insts, e.at))

\* under RequireDead one queued load has been patched into a register and
\* another, with no register both clean and dead, was left a memory operand
C24_Witness ==
    /\ regs.config.sink_loads = "RequireDead"
    /\ PatchesApplied # {}
    /\ \E e \in LoadsLeftSunk :
          /\ e.present
          /\ e.at < Len(regs.target.insts)
          /\ HasMemOperand(At(regs.target.insts, e.at))

-----------------------------------------------------------------------------
(* Properties of the DirtyPool ring *)

\* the calls of get_clean_regs float_load has made
CleanRegsCalls == PatchCalls \cup LoadsLeftSunk

\* the loads queued after the one the call asks about
LaterLoads(e) == e.front - 1 - e.pushed

\* C25: get_clean_regs finds a queued load in its ring slot exactly when
\* fewer than 32 loads were queued after it, a load 32 or more were queued
\* after is given no register and is never patched, and for a load still in
\* the ring the position rebuilt from the handle and front is the position
\* at which it was pushed, without the subtraction going below zero.
C25_RingBuffer ==
    \A e \in CleanRegsCalls :
        /\ e.pushed >= 0 /\ e.pushed < e.front
        /\ e.present <=> LaterLoads(e) < DirtyPoolLen
        /\ ~e.present => e.clean = {} /\ e \in LoadsLeftSunk
        /\ e.present => e.pos = e.pushed

\* a load queued before the ring wrapped around was still in it when it was
\* asked for after the wrap, and was patched into a register
C25_Witness ==
    \E e \in PatchesApplied :
        /\ e.present
        /\ e.pushed < DirtyPoolLen
        /\ e.front > DirtyPoolLen

-----------------------------------------------------------------------------
(* Properties of regalloc::Lru *)

LruSize == Len(lru.data)

Distinct(s) == \A i \in DOMAIN s, j \in DOMAIN s : i # j => s[i] # s[j]

\* C15: on an Lru of n registers in any reachable state, after mark_used(r)
\* the first n - 1 pops return the other registers, each once, and the n-th
\* returns r; after mark_used(r1) then mark_used(r2), r1 # r2, the pops return
\* the other registers, then r1, then r2; after mark_unused(r) the next pop
\* returns r.
C15_LruOrder ==
    LET n == LruSize
        k == Len(trail.pops)
        r1 == trail.marks[1]
        r2 == trail.marks[Len(trail.marks)]
    IN /\ trail.kind = "used" =>
            /\ Distinct(trail.pops)
            /\ \A i \in 1 .. k : trail.pops[i] = r2 <=> i = n
            /\ Len(trail.marks) = 2 => \A i \in 1 .. k : trail.pops[i] = r1 <=> i = n - 1
       /\ (trail.kind = "unused" /\ k >= 1) => trail.pops[1] = trail.marks[1]

\* a full round of pops after mark_used(1), mark_used(3) on an Lru of four
\* registers that earlier operations had reordered (a new one pops 2 first)
C15_Witness ==
    /\ LruSize = 4
    /\ trail.kind = "used"
    /\ trail.marks = <<1, 3>>
    /\ trail.pops = <<0, 2, 1, 3>>

\* the register reached from i by k steps along next, and along prev
RECURSIVE NextIter(_, _, _)
NextIter(l, i, k) == IF k = 0 THEN i ELSE NextIter(l, At(l.data, i).next, k - 1)
RECURSIVE PrevIter(_, _, _)
PrevIter(l, i, k) == IF k = 0 THEN i ELSE PrevIter(l, At(l.data, i).prev, k - 1)

\* the k-th least recently used register of l, k = 1 for the oldest
Oldest(l, k) == PrevIter(l, l.head, k)

\* the least recently used register of l among those in mask
LeastRecentIn(l, mask) ==
    Oldest(l, CHOOSE k \in 1 .. Len(l.data) :
                  /\ Oldest(l, k) \in mask
                  /\ \A j \in 1 .. k - 1 : Oldest(l, j) \notin mask)

\* C30: after any sequence of mark_used, mark_unused, pop and pop_first_in
\* (non-empty mask of existing registers) the nodes form one cycle holding
\* every register once, next and prev are inverse of each other, and
\* pop_first_in returned the least recently used register of the mask,
\* made it the newest and did not reach its unreachable branch.
C30_LruStructure ==
    /\ lru.head \in LruRegs
    /\ \A i \in LruRegs :
          /\ At(lru.data, i).next \in LruRegs
          /\ At(lru.data, i).prev \in LruRegs
          /\ At(lru.data, At(lru.data, i).next).prev = i
          /\ At(lru.data, At(lru.data, i).prev).next = i
    /\ {NextIter(lru, lru.head, k) : k \in 0 .. LruSize - 1} = LruRegs
    /\ NextIter(lru, lru.head, LruSize) = lru.head
    /\ trail.kind = "first_in" =>
          /\ trail.ok
          /\ trail.r = LeastRecentIn(trail.was, trail.mask)
          /\ lru.head = trail.r
          /\ Oldest(lru, LruSize) = trail.r

\* pop_first_in on a reordered list of four registers whose two oldest
\* registers are outside the mask
C30_Witness ==
    /\ LruSize = 4
    /\ trail.kind = "first_in"
    /\ trail.mask = {0, 3}
    /\ trail.was # LruNew(4)
    /\ Oldest(trail.was, 1) \notin trail.mask
    /\ Oldest(trail.was, 2) \notin trail.mask
    /\ trail.r = Oldest(trail.was, 3)
    /\ lru.head = trail.r

-----------------------------------------------------------------------------
(* Properties of ir::Const *)

ConstReturned == cres.k = "const"

\* C17: Const::new aborts for NaN, +Inf and -Inf, creating no constant; for
\* every finite input it returns a Const whose bits() are the input's bit
\* pattern and whose value() is the input, bit for bit.
C17_ConstNew ==
    cres.k # "call" =>
        /\ (IsNaN(cin) \/ IsInfinite(cin)) <=> (cres.k = "abort" /\ cres.c = None)
        /\ ConstReturned =>
              /\ ConstBits(cres.c[1]) = ToBits(cin)
              /\ ConstValue(cres.c[1]) = cin
              /\ ToBits(ConstValue(cres.c[1])) = ConstBits(cres.c[1])

\* Const::new returned for the negative subnormal with every fraction bit set
C17_Witness ==
    /\ cin = F32(1, 0, 8388607)
    /\ ConstReturned
    /\ ConstBits(cres.c[1]) = <<32895, 65535>>

\* Const::new aborted for a negative NaN
C17_WitnessAbort == cin = F32(1, 255, 1) /\ cres.k = "abort"

-----------------------------------------------------------------------------
(* Properties of ir::io::read *)

ReadDone == rres.k # "reading"

\* the instruction lines of the input: those with a token before any comment
InstLines == {i \in DOMAIN text : Len(TakeTokens(text[i])) > 0}
OutName(i) == TakeTokens(text[i])[1]
DefinedBefore(i) == {OutName(j) : j \in {k \in InstLines : k < i}}
Redefines(i) == OutName(i) \in DefinedBefore(i)

\* the number of operands the operation of line i takes, -1 when unknown
OperandCount(i) ==
    Bind(TakeTokens(text[i]), LAMBDA t :
        IF Len(t) < 2 THEN -1
        ELSE IF t[2] \in {"neg", "square", "sqrt"} THEN 1
        ELSE IF t[2] \in {"add", "sub", "mul", "min", "max"} THEN 2
        ELSE IF t[2] \in {"var-x", "var-y", "var-z", "const"} THEN 0
        ELSE -1)

\* the positions of the operands of line i that name nothing defined earlier,
\* every operand to their left being present and defined
UndefinedAt(i) ==
    {k \in 3 .. 2 + OperandCount(i) :
        /\ k <= Len(TakeTokens(text[i]))
        /\ TakeTokens(text[i])[k] \notin DefinedBefore(i)
        /\ \A j \in 3 .. k - 1 : TakeTokens(text[i])[j] \in DefinedBefore(i)}
HasUndefined(i) == UndefinedAt(i) # {}
FirstUndefined(i) == TakeTokens(text[i])[CHOOSE k \in UndefinedAt(i) : TRUE]

\* line i has a known operation and exactly the tokens it takes, a constant
\* being a finite number
LineWellFormed(i) ==
    Bind(TakeTokens(text[i]), LAMBDA t :
        /\ OperandCount(i) >= 0
        /\ IF t[2] = "const"
           THEN Len(t) = 3 /\ ParseF32(t[3]) # None /\ IsFinite(ParseF32(t[3])[1])
           ELSE Len(t) = 2 + OperandCount(i))

Clean(i) == LineWellFormed(i) /\ ~HasUndefined(i) /\ ~Redefines(i)
CleanBefore(i) == \A j \in InstLines : j < i => Clean(j)

StoppedWith(kind, name, i) ==
    rres.k = "err" /\ rres.err = kind /\ rres.name = name /\ rres.line = i

LastLine == CHOOSE i \in InstLines : \A j \in InstLines : j <= i

\* Empty is for an input that ends without an instruction line
ReadEmptyAndFinish ==
    /\ (InstLines = {} /\ ~rfail) <=> (rres.k = "err" /\ rres.err = "Empty")
    /\ rres.k = "ok" =>
          /\ \A i \in InstLines : Clean(i)
          /\ rres.fin = Some(rnames[OutName(LastLine)])

UndefinedNameAtFirst ==
    \A i \in InstLines :
        HasUndefined(i) /\ CleanBefore(i) => StoppedWith("UndefinedName", FirstUndefined(i), i)

\* C18 as stated: read stops with RedefinedName at the first line whose
\* result name an earlier line defined, with UndefinedName at the first
\* operand not defined on an earlier line, with Empty when there is no
\* instruction line, and otherwise finish gets the last line's value (of an
\* input the reader delivers to its end).
C18_NameDiscipline ==
    ReadDone =>
        /\ \A i \in InstLines :
              Redefines(i) /\ LineWellFormed(i) /\ CleanBefore(i)
                  => StoppedWith("RedefinedName", OutName(i), i)
        /\ UndefinedNameAtFirst
        /\ ReadEmptyAndFinish

\* C18: the operands of a line are looked up before its result name is
\* entered.  Read stops with RedefinedName at the first line whose result
\* name an earlier line defined if the operands of that line are defined,
\* and with UndefinedName (of the leftmost undefined operand) at the first
\* line with an operand no earlier line defined, whether or not that line
\* also redefines a name; neither error is reported otherwise.  It stops
\* with Empty when the input ends without an instruction line, and otherwise
\* finish gets the value the last instruction line defined; when the reader
\* fails after lines that are all valid, read returns its error and finish
\* is not called.
C18_OperandsBeforeResult ==
    ReadDone =>
        /\ \A i \in InstLines :
              Redefines(i) /\ LineWellFormed(i) /\ ~HasUndefined(i) /\ CleanBefore(i)
                  => StoppedWith("RedefinedName", OutName(i), i)
        /\ UndefinedNameAtFirst
        /\ rres.k = "err" /\ rres.err = "RedefinedName"
              => Redefines(rres.line) /\ ~HasUndefined(rres.line)
        /\ rres.k = "err" /\ rres.err = "UndefinedName" => HasUndefined(rres.line)
        /\ ReadEmptyAndFinish
        /\ rfail /\ (\A i \in InstLines : Clean(i)) => StoppedWith("IO", "", Len(text) + 1)
        /\ rres.k = "err" /\ rres.err = "IO" => rfail

\* two lines defining a and b, then a line redefining a from defined
\* operands: Simplify has both values, read reports a
C18_Witness ==
    /\ text = <<<<"a", "var-x">>, <<"b", "neg", "a">>, <<"a", "sub", "b", "a">>>>
    /\ sink = "simplify"
    /\ StoppedWith("RedefinedName", "a", 3)
    /\ DOMAIN rnames = {"a", "b"}

-----------------------------------------------------------------------------
(* Simplify against the program as written *)

\* the value a line of the program denotes, env holding the values of the
\* names defined before it
LineValue(t, env, point, build) ==
    CASE t[2] = "var-x" -> point[1]
      [] t[2] = "var-y" -> point[2]
      [] t[2] = "const" -> ParseF32(t[3])[1]
      [] t[2] = "neg" -> FNeg(env[t[3]])
      [] t[2] = "square" -> FMul(env[t[3]], env[t[3]], build)
      [] t[2] = "sqrt" -> FSqrt(env[t[3]], build)
      [] t[2] = "add" -> FAdd(env[t[3]], env[t[4]], build)
      [] t[2] = "sub" -> FSub(env[t[3]], env[t[4]], build)
      [] t[2] = "mul" -> FMul(env[t[3]], env[t[4]], build)
      [] t[2] = "min" -> FMin(env[t[3]], env[t[4]], build)
      [] t[2] = "max" -> FMax(env[t[3]], env[t[4]], build)

\* the values of the names after the first n lines
RECURSIVE TextEnv(_, _, _)
TextEnv(n, point, build) ==
    IF n = 0 THEN <<>>
    ELSE IF n \notin InstLines THEN TextEnv(n - 1, point, build)
    ELSE Bind(TextEnv(n - 1, point, build), LAMBDA env :
             (OutName(n) :> LineValue(TakeTokens(text[n]), env, point, build)) @@ env)

\* the value of the program: that of its last instruction line
TextValue(point, build) == TextEnv(Len(text), point, build)[OutName(LastLine)]

SimplifiedRoot == rres.root[1]
Simplified == sink = "simplify" /\ rres.k = "ok"

\* C16: in every build and at every sample point, the instruction Simplify
\* finishes with evaluates, in the pool it built, to the value of the input
\* program, bit for bit.
C16_SimplifyExact ==
    Simplified =>
        \A build \in Builds :
            \A point \in InterpPoints(build) :
                InterpRegs(pool, Len(pool), point, build)[SimplifiedRoot + 1]
                    = TextValue(point, build)

-----------------------------------------------------------------------------
(* Properties of MemoBuilder: loads, output slots and initial homes *)

MemoInstsOf(f) == 0 .. Len(funcs[f].insts) - 1
MemoSlotsOf(f) == 0 .. Len(funcs[f].outputs) - 1
MemoLoadsOf(f) == {i \in MemoInstsOf(f) : At(funcs[f].insts, i).k = "Load"}

\* the output slots of function f that instruction i defines
SlotsDefinedBy(f, i) == {s \in MemoSlotsOf(f) : At(funcs[f].outputs, s) = Some(i)}

\* the functions holding a Load of slot s of function f
ConsumersOf(f, s) == {g \in Funcs : \E i \in MemoLoadsOf(g) : At(funcs[g].insts, i) = LoadI(f, s)}

\* C21: over any sequence of pushes to MemoBuilder, no instruction defines
\* more than one output slot of its function, however many functions load
\* it, and no function holds two Loads of the same source (the same
\* constant, variable or output slot).
C21_EnsureLoadDedup ==
    /\ ~mdone => \A f \in Funcs : \A i \in MemoInstsOf(f) : Cardinality(SlotsDefinedBy(f, i)) <= 1
    /\ \A f \in Funcs : \A i \in MemoLoadsOf(f), j \in MemoLoadsOf(f) :
          At(funcs[f].insts, i) = At(funcs[f].insts, j) => i = j
    /\ \A f \in Funcs : \A arg \in DOMAIN load[f] :
          /\ load[f][arg] \in MemoLoadsOf(f)
          /\ At(funcs[f].insts, load[f][arg]).val = arg.vars
    /\ \A f \in Funcs : Cardinality(DOMAIN load[f]) = Cardinality(MemoLoadsOf(f))

\* the Neg of x, exported once from the function of x and loaded by the
\* functions of xy and of xz
C21_Witness ==
    /\ ~mdone
    /\ funcs[1].insts = <<LoadI(1, 0), UnOpI("Neg", 0)>>
    /\ funcs[1].outputs = <<None, Some(1)>>
    /\ ConsumersOf(1, 1) = {3, 5}

\* the calls emit makes to Allocation::initial_location for instruction i of
\* function f: one if it is a Load, and one per output slot it defines
InitialLocationCalls(f, i) ==
    (IF i \in MemoLoadsOf(f) THEN 1 ELSE 0) + Cardinality(SlotsDefinedBy(f, i))

\* C27: in every Memoized program MemoBuilder has finished, for any final
\* value, no instruction defines more than one output slot and no Load
\* defines one: emit calls initial_location at most once per allocation.
C27_UniqueInitialHomes ==
    mdone => \A f \in Funcs : \A i \in MemoInstsOf(f) : InitialLocationCalls(f, i) <= 1

\* C28: after any sequence of pushes every Load reads a cell written before
\* it: a constant of the table; for a variable, slot 0 of that variable's
\* function, reserved and without a definer; otherwise an output slot of
\* the source function that an instruction of that function defines.
C28_NoDanglingLoads ==
    \A f \in Funcs : \A arg \in DOMAIN load[f] :
        LET ld == At(funcs[f].insts, load[f][arg])
        IN /\ ld.k = "Load"
           /\ ld.val = arg.vars
           /\ IF arg.vars = 0
              THEN ld.loc < Len(consts) /\ ld.loc = arg.idx[1]
              ELSE IF arg.idx = None
              THEN /\ arg.vars \in {VarSetOf(v) : v \in Vars}
                   /\ ld.loc = 0
                   /\ At(funcs[arg.vars].outputs, 0) = None
              ELSE /\ ld.loc \in MemoSlotsOf(arg.vars)
                   /\ At(funcs[arg.vars].outputs, ld.loc) = Some(arg.idx[1])
                   /\ arg.idx[1] \in MemoInstsOf(arg.vars) \ MemoLoadsOf(arg.vars)
           /\ \A v \in Vars : At(funcs[VarSetOf(v)].outputs, 0) = None

\* a constant and x loaded into the function of x, and their product
\* loaded from its output slot into the function of xy
C28_Witness ==
    /\ funcs[1].insts = <<LoadI(0, 0), LoadI(1, 0), BinOpI("Mul", 0, 1)>>
    /\ funcs[1].outputs = <<None, Some(2)>>
    /\ LoadI(1, 1) \in {At(funcs[3].insts, i) : i \in MemoLoadsOf(3)}
    /\ Len(consts) = 1

=============================================================================
